---- MODULE Spec2Model ----
(***************************************************************************)
(* Model of the tick-based world of cosmic-backend: src/cosmic/world.py    *)
(* (World), src/cosmic/cells.py (Celula, Planta, Herbivoro, Carnivoro) and *)
(* the brain bookkeeping of src/cosmic/brain.py (CellBrain).               *)
(*                                                                         *)
(* World.update is modelled as the steps StartTick (tick += 1, snapshot,   *)
(* shuffle), UpdateCell (one iteration of the pass: the whole cell.update  *)
(* call with the should_die handling) and FinishTick (removal, insertion   *)
(* of the buffered offspring, evolution).  While a tick is in progress     *)
(* (pc = "pass") no host operation is enabled: the loop is single          *)
(* threaded.  The host sets the world up (populate, add_cell, scattered    *)
(* materials) before the first tick, as CosmicSimulation does.             *)
(***************************************************************************)
EXTENDS Integers, Sequences, FiniteSets, TLC

\* ---------------------------------------------------------------- bounds
\* World(width, height): the size of the world under analysis.
Width == 3
Height == 1
\* Ticks explored.
MaxTick == 4
\* Organisms the host may seed (populate, add_cell) over one run.
MaxSeed == 3
\* The same budget in the runs that explore materials and discoveries.
MaxForagers == 2
\* Placements of native materials by the host, and the planet's native
\* material objects they draw from.
MaxScattered == 2
NativeMaterials == 2
\* Objects created during a run (materialised raw materials, products of
\* a combination).
MaxObjects == 1
\* World.generation_length is 500 in the source; the model scales it so
\* that evolution cycles fall inside the explored ticks.
GenerationLength == 2

\* ------------------------------------------------------ program constants
HerbivoroInitialEnergy == 20
HerbivoroEnergyPerPlant == 15
HerbivoroReproductionThreshold == 30
HerbivoroUpkeep == 1
CarnivoroInitialEnergy == 30
CarnivoroEnergyPerHerbivore == 25
CarnivoroReproductionThreshold == 50
CarnivoroUpkeep == 2
PlantaReproductionAge == 10
PlantaMaxAge == 50
MinHerbivoreBrains == 5
MinCarnivoreBrains == 2
PopulationDivisor == 4
MaxInventoryForaging == 3
MaxInventoryMaterialise == 2
ExperimentationCooldown == 5
DiscoveryEnergyBonus == 10
\* The advanced materials of _rule_advanced_conductor, the only combine
\* rule: each yields a discovery the first time its signature is created.
AdvancedMaterials == 3
MaxDurability == 100
BrokenBelow == 30
EvolutionEnabled == TRUE

\* Constructor arguments the host passes to add_cell: the defaults, and
\* small values that bring starvation, plant reproduction and plant death
\* inside the explored ticks.
HerbivoroEnergies == {1, HerbivoroInitialEnergy}
CarnivoroEnergies == {2, CarnivoroInitialEnergy}
PlantaParams == {<<PlantaReproductionAge, PlantaMaxAge>>, <<1, 2>>}

VARIABLES
    grid,             \* World.grid: position -> organism id, None when empty
    cells,            \* every Celula object created so far, by id
    tick,             \* World.tick
    dead_brains,      \* World.dead_brains: per species, ids of the brains' owners
    pc,               \* "idle" between ticks, "pass" inside World.update
    cells_to_update,  \* the part of the snapshot not yet processed
    new_cells,        \* offspring buffered in this tick
    cells_to_remove,  \* organisms that died in their update in this tick
    call,             \* the outcome of the last host call
    updates,          \* snapshot id -> update() calls run on it in this tick
    placed,           \* ids that have ever been referenced by the grid
    evolved_at,       \* ticks at whose end _evolve_generation ran, in order
    scattered_materials, \* World.scattered_materials: position -> object
    objects,          \* UniverseObjects created during the run
    discoveries,      \* DISCOVERY_DETECTOR.next_discovery_id - 1
    host,             \* what the host of this run does: its budgets
    consumed,         \* ids of the organisms consumed as prey so far
    universe,         \* the UniverseObjects of a component run, by id
    brain_pool,       \* the dead brains handed to the evolution engine
    population,       \* the brains the evolution engine returned
    generation,       \* EvolutionEngine.generation
    engine,           \* the InteractionEngine's log and tables
    last_result,      \* the CombinationResult interact returned last
    calls,            \* the component calls of the run so far
    detector,         \* the DiscoveryDetector's tables and next id
    occurrences,      \* objects created so far, by signature
    networks          \* the weights of the NeuralNetworks of a component run

\* The state of the components exercised on their own (objects, engine,
\* detector, evolution engine); the world's runs leave it alone.
labVars == <<universe, brain_pool, population, generation, engine,
             last_result, calls, detector, occurrences, networks>>

vars == <<grid, cells, tick, dead_brains, pc, cells_to_update, new_cells,
          cells_to_remove, call, updates, placed, evolved_at,
          scattered_materials, objects, discoveries, host, consumed,
          labVars>>

None == 0
Pos == (0 .. Width - 1) \X (0 .. Height - 1)

InBounds(x, y) == 0 <= x /\ x < Width /\ 0 <= y /\ y < Height

Max(a, b) == IF a >= b THEN a ELSE b

\* CellBrain.ACTIONS: the eight directions, then "stay".
BRAIN_ACTIONS == << <<-1, 0>>, <<-1, 1>>, <<0, 1>>, <<1, 1>>, <<1, 0>>,
                   <<1, -1>>, <<0, -1>>, <<-1, -1>>, <<0, 0>> >>

\* The double loop "for dx in [-1,0,1]: for dy in [-1,0,1]" without (0,0).
Moore == {d \in {-1, 0, 1} \X {-1, 0, 1} : d # <<0, 0>>}

OnGrid(g) == {g[p] : p \in Pos} \ {None}

EmptyPositions(g) == {p \in Pos : g[p] = None}

\* Injective sequences of length n over the set S: the first n entries of
\* random.shuffle applied to a list of the elements of S.
Shuffled(S, n) ==
    {f \in [1 .. n -> S] : \A a, b \in 1 .. n : a # b => f[a] # f[b]}

InSeq(e, s) == \E k \in 1 .. Len(s) : s[k] = e

Count(e, s) == Cardinality({k \in 1 .. Len(s) : s[k] = e})

\* ------------------------------------------------------------ constructors
\* Celula.__init__ with the subclass fields; plants carry no energy.
Celula(kind, x, y) ==
    [kind |-> kind, x |-> x, y |-> y, age |-> 0,
     energy |-> 0, last_energy |-> 0, energy_per_prey |-> 0,
     reproduction |-> 0, max_age |-> 0,
     age_at_death |-> 0, energy_gained |-> 0, offspring_count |-> 0,
     inventory |-> <<>>, known_discoveries |-> {},
     experimentation_cooldown |-> 0,
     origin |-> "seed"]

Planta(x, y, reproduction_age, max_age) ==
    [Celula("P", x, y) EXCEPT !.reproduction = reproduction_age,
                              !.max_age = max_age]

Herbivoro(x, y, initial_energy, energy_per_plant, reproduction_threshold) ==
    [Celula("H", x, y) EXCEPT !.energy = initial_energy,
                              !.last_energy = initial_energy,
                              !.energy_per_prey = energy_per_plant,
                              !.reproduction = reproduction_threshold]

Carnivoro(x, y, initial_energy, energy_per_herbivore, reproduction_threshold) ==
    [Celula("C", x, y) EXCEPT !.energy = initial_energy,
                              !.last_energy = initial_energy,
                              !.energy_per_prey = energy_per_herbivore,
                              !.reproduction = reproduction_threshold]

DefaultCell(kind, x, y) ==
    CASE kind = "P" -> Planta(x, y, PlantaReproductionAge, PlantaMaxAge)
      [] kind = "H" -> Herbivoro(x, y, HerbivoroInitialEnergy,
                                 HerbivoroEnergyPerPlant,
                                 HerbivoroReproductionThreshold)
      [] kind = "C" -> Carnivoro(x, y, CarnivoroInitialEnergy,
                                 CarnivoroEnergyPerHerbivore,
                                 CarnivoroReproductionThreshold)

Upkeep(kind) == IF kind = "H" THEN HerbivoroUpkeep ELSE CarnivoroUpkeep

\* isinstance(target_cell, Planta) for a herbivore, Herbivoro for a carnivore.
Prey(kind) == IF kind = "H" THEN "P" ELSE "H"

\* should_die of the animals with a strict comparison.
ShouldDieBelowZero(c) ==
    IF c.kind = "P" THEN c.age >= c.max_age ELSE c.energy < 0

\* should_die of the three classes.
ShouldDie(c) ==
    IF c.kind = "P" THEN c.age >= c.max_age ELSE c.energy <= 0


\* ------------------------------------------------------------ world helpers
\* The positions in the order of "for y in range(height): for x in
\* range(width)".
RowMajor == [k \in 1 .. Width * Height |->
                <<(k - 1) % Width, (k - 1) \div Width>>]

IsOccupant(v) == v # None

\* The scan without a snapshot's protection: every organism is listed
\* twice, as when a mover is met again in a cell scanned later.
SnapshotRepeats(g) ==
    LET s == SelectSeq([k \in 1 .. Width * Height |-> g[RowMajor[k]]],
                       IsOccupant)
    IN  s \o s

\* World.update, lines 80-84: the occupied cells' organisms, row by row.
Snapshot(g) ==
    SelectSeq([k \in 1 .. Width * Height |-> g[RowMajor[k]]], IsOccupant)

\* s without its k-th entry.
Without(s, k) == SubSeq(s, 1, k - 1) \o SubSeq(s, k + 1, Len(s))

\* The empty in-bounds Moore neighbours of (x, y).
AdjacentEmpty(g, x, y) ==
    {p \in Pos : <<p[1] - x, p[2] - y>> \in Moore /\ g[p] = None}

\* _brain_move_and_eat with line 259 left out: the organism enters the
\* target cell and its old cell keeps referencing it.
MoveAndEatKeepsOldCell(w, i, d) ==
    LET c == w.cells[i]
        np == <<c.x + d[1], c.y + d[2]>>
    IN  IF ~InBounds(np[1], np[2]) THEN w
        ELSE
          LET target == w.grid[np]
              isPrey == target # None /\ w.cells[target].kind = Prey(c.kind)
              c1 == IF isPrey
                    THEN [c EXCEPT !.energy = @ + c.energy_per_prey,
                                   !.energy_gained = @ + c.energy_per_prey]
                    ELSE c
          IN  IF target = None \/ isPrey
              THEN [w EXCEPT
                      !.grid = [@ EXCEPT ![np] = i],
                      !.cells = [@ EXCEPT ![i] =
                                    [c1 EXCEPT !.x = np[1], !.y = np[2]]],
                      !.eaten = IF isPrey THEN target ELSE None]
              ELSE w

\* _brain_move_and_eat without lines 253-255: the prey is removed and its
\* cell entered, and the energy stays as it was.
MoveAndEatGainsNothing(w, i, d) ==
    LET c == w.cells[i]
        np == <<c.x + d[1], c.y + d[2]>>
    IN  IF ~InBounds(np[1], np[2]) THEN w
        ELSE
          LET target == w.grid[np]
              isPrey == target # None /\ w.cells[target].kind = Prey(c.kind)
          IN  IF target = None \/ isPrey
              THEN [w EXCEPT
                      !.grid = [[@ EXCEPT ![<<c.x, c.y>>] = None]
                                    EXCEPT ![np] = i],
                      !.cells = [@ EXCEPT ![i] =
                                    [c EXCEPT !.x = np[1], !.y = np[2]]],
                      !.eaten = IF isPrey THEN target ELSE None]
              ELSE w

\* Herbivoro._brain_move_and_eat and Carnivoro._brain_hunt_and_eat with the
\* brain's decision d = (dx, dy).  w is the world inside the pass: the
\* grid, the cells, the materials and the counters, with new, the
\* offspring returned by the update, and eaten, the prey it consumed.
MoveAndEat(w, i, d) ==
    LET c == w.cells[i]
        np == <<c.x + d[1], c.y + d[2]>>
    IN  IF ~InBounds(np[1], np[2]) THEN w
        ELSE
          LET target == w.grid[np]
              isPrey == target # None /\ w.cells[target].kind = Prey(c.kind)
              g1 == IF isPrey THEN [w.grid EXCEPT ![np] = None] ELSE w.grid
              c1 == IF isPrey
                    THEN [c EXCEPT !.energy = @ + c.energy_per_prey,
                                   !.energy_gained = @ + c.energy_per_prey]
                    ELSE c
          IN  IF target = None \/ isPrey
              THEN [w EXCEPT
                      !.grid = [[g1 EXCEPT ![<<c.x, c.y>>] = None]
                                    EXCEPT ![np] = i],
                      !.cells = [@ EXCEPT ![i] =
                                    [c1 EXCEPT !.x = np[1], !.y = np[2]]],
                      !.eaten = IF isPrey THEN target ELSE None]
              ELSE w

\* The offspring of _brain_reproduce given all the energy the parent has
\* left instead of half of it.
OffspringTakesAll(c, p) ==
    [(IF c.kind = "H"
      THEN Herbivoro(p[1], p[2], c.energy, c.energy_per_prey, c.reproduction)
      ELSE Carnivoro(p[1], p[2], c.energy, c.energy_per_prey, c.reproduction))
     EXCEPT !.origin = "offspring"]

\* The offspring of _brain_reproduce: half the parent's energy after the
\* split, the parent's species parameters.
Offspring(c, p) ==
    [(IF c.kind = "H"
      THEN Herbivoro(p[1], p[2], c.energy \div 2, c.energy_per_prey,
                     c.reproduction)
      ELSE Carnivoro(p[1], p[2], c.energy \div 2, c.energy_per_prey,
                     c.reproduction))
     EXCEPT !.origin = "offspring"]

\* Herbivoro._brain_reproduce / Carnivoro._brain_reproduce: the outcomes of
\* random.choice over the empty neighbours; CellBrain.reproduce counts the
\* offspring on the parent's brain.
BrainReproduce(w, i) ==
    LET c == w.cells[i]
        adjacent_empty_positions == AdjacentEmpty(w.grid, c.x, c.y)
    IN  IF adjacent_empty_positions = {} THEN {w}
        ELSE
          LET parent == [c EXCEPT !.energy = @ \div 2,
                                  !.offspring_count = @ + 1]
          IN  {[w EXCEPT
                  !.cells = Append([@ EXCEPT ![i] = parent],
                                   Offspring(parent, p)),
                  !.new = Len(w.cells) + 1]
               : p \in adjacent_empty_positions}

\* Planta._reproduce.
PlantaReproduce(w, i) ==
    LET c == w.cells[i]
        adjacent_positions == AdjacentEmpty(w.grid, c.x, c.y)
    IN  IF adjacent_positions = {} THEN {w}
        ELSE {[w EXCEPT
                  !.cells = Append(@, [Planta(p[1], p[2], c.reproduction,
                                              c.max_age)
                                       EXCEPT !.origin = "offspring"]),
                  !.new = Len(w.cells) + 1]
              : p \in adjacent_positions}

\* Planta.update without the test age % reproduction_age == 0.
PlantaUpdateBreedsEveryTick(w, i) ==
    LET c  == [w.cells[i] EXCEPT !.age = @ + 1]
        w1 == [w EXCEPT !.cells = [@ EXCEPT ![i] = c]]
    IN  IF c.age >= c.reproduction THEN PlantaReproduce(w1, i) ELSE {w1}

\* Planta.update.
PlantaUpdate(w, i) ==
    LET c  == [w.cells[i] EXCEPT !.age = @ + 1]
        w1 == [w EXCEPT !.cells = [@ EXCEPT ![i] = c]]
    IN  IF c.age >= c.reproduction /\ c.age % c.reproduction = 0
        THEN PlantaReproduce(w1, i)
        ELSE {w1}

\* The head of Herbivoro.update / Carnivoro.update: ageing, upkeep, the
\* energy bookkeeping of the brain and, at energy <= 0, record_death.
Upkept(c) ==
    LET energy == c.energy - Upkeep(c.kind)
        energy_gained == energy - c.last_energy
        c1 == [c EXCEPT !.age = @ + 1,
                        !.energy = energy,
                        !.energy_gained =
                            IF energy_gained > 0 THEN @ + energy_gained ELSE @,
                        !.last_energy = energy]
    IN  IF energy <= 0 THEN [c1 EXCEPT !.age_at_death = c1.age] ELSE c1

\* The in-bounds positions (x + dx, y + dy), dx and dy in [-1, 0, 1].
Near(x, y) == {p \in Pos : p[1] - x \in {-1, 0, 1} /\ p[2] - y \in {-1, 0, 1}}

\* The pickup of find_basic_materials: append the object, delete the entry.
Pickup(w, i, p) ==
    [w EXCEPT !.cells[i].inventory = Append(@, w.scattered_materials[p]),
              !.scattered_materials[p] = None]

\* find_basic_materials without the test len(self.inventory) < 3.
FindBasicMaterialsAtAnySize(w, i) ==
    LET c == w.cells[i]
    IN  IF w.scattered_materials[<<c.x, c.y>>] # None
        THEN {Pickup(w, i, <<c.x, c.y>>)}
        ELSE {Pickup(w, i, p) :
                p \in {q \in Near(c.x, c.y) : w.scattered_materials[q] # None}}
             \cup {w}

\* Celula.find_basic_materials: the outcomes of its random draws.  The
\* material under the organism is picked for certain, a nearby one with
\* 30% chance, and with 5% chance a raw material is materialised.
FindBasicMaterials(w, i) ==
    LET c == w.cells[i]
    IN  IF Len(c.inventory) >= MaxInventoryForaging THEN {w}
        ELSE IF w.scattered_materials[<<c.x, c.y>>] # None
        THEN {Pickup(w, i, <<c.x, c.y>>)}
        ELSE {Pickup(w, i, p) :
                p \in {q \in Near(c.x, c.y) : w.scattered_materials[q] # None}}
             \cup (IF Len(c.inventory) < MaxInventoryMaterialise
                      /\ w.objects < host.objects
                   THEN {[w EXCEPT
                            !.cells[i].inventory =
                                Append(@, NativeMaterials + w.objects + 1),
                            !.objects = @ + 1]}
                   ELSE {})
             \cup {w}

\* Celula.share_discovery_with_neighbors: the Moore neighbours that do not
\* know the discovery learn its id.  A Discovery has no "result"
\* attribute, so no object is handed over.
ShareDiscoveryWithNeighbors(w, i, d) ==
    LET c == w.cells[i]
        neighbors == {w.grid[p] : p \in {q \in Pos :
                        <<q[1] - c.x, q[2] - c.y>> \in Moore}} \ {None}
    IN  [w EXCEPT !.cells =
            [j \in 1 .. Len(w.cells) |->
                IF j \in neighbors /\ d \notin w.cells[j].known_discoveries
                THEN [w.cells[j] EXCEPT !.known_discoveries = @ \cup {d}]
                ELSE w.cells[j]]]

\* attempt_discovery recording the energy bonus for every combination
\* tried, whether or not it yields a discovery.
AttemptDiscoveryRewardsAttempts(w, i) ==
    LET c == w.cells[i]
        inv == c.inventory
    IN  IF c.experimentation_cooldown <= 0 /\ Len(inv) >= 2
           /\ \E a, b \in 1 .. Len(inv) : inv[a] # inv[b]
        THEN {w, [w EXCEPT !.cells[i].experimentation_cooldown =
                               ExperimentationCooldown,
                           !.cells[i].energy_gained =
                               @ + DiscoveryEnergyBonus]}
        ELSE {w}

\* Celula.attempt_discovery with its draws given: curious is the outcome of
\* random.random() < self.curiosity, a and b are the positions the two
\* random.choice calls take from the inventory.  The two choices are
\* independent; when both give the same object nothing is combined and the
\* cooldown is left alone.  A combination of two distinct objects either
\* yields no discovery, or (while an advanced material is still unseen by
\* the detector) a discovery with a fresh id and one new object.
AttemptDiscoveryWith(w, i, curious, a, b) ==
    LET c == w.cells[i]
        inv == c.inventory
    IN  IF c.experimentation_cooldown <= 0 /\ curious /\ Len(inv) >= 2
        THEN IF inv[a] # inv[b]
             THEN {[w EXCEPT !.cells[i].experimentation_cooldown =
                                 ExperimentationCooldown]}
                  \cup (IF w.discoveries < AdvancedMaterials
                           /\ w.objects < host.objects
                        THEN LET d == w.discoveries + 1
                                 found ==
                                   [w EXCEPT
                                      !.cells[i].known_discoveries =
                                          @ \cup {d},
                                      !.cells[i].inventory =
                                          Append(@, NativeMaterials
                                                    + w.objects + 1),
                                      !.cells[i].energy_gained =
                                          @ + DiscoveryEnergyBonus,
                                      !.objects = @ + 1,
                                      !.discoveries = d]
                             IN  {[ShareDiscoveryWithNeighbors(found, i, d)
                                   EXCEPT !.cells[i].experimentation_cooldown =
                                             ExperimentationCooldown]}
                        ELSE {})
             ELSE {w}
        ELSE {w}

\* The positions random.choice can take from an inventory (one dummy
\* position for an inventory from which nothing is ever drawn).
Choices(inv) == 1 .. (IF Len(inv) = 0 THEN 1 ELSE Len(inv))

\* Celula.attempt_discovery: the outcomes of the curiosity draw, of the two
\* random.choice draws and of the combination.
AttemptDiscovery(w, i) ==
    UNION {AttemptDiscoveryWith(w, i, curious, a, b) :
             curious \in BOOLEAN,
             a \in Choices(w.cells[i].inventory),
             b \in Choices(w.cells[i].inventory)}

\* The tail of Herbivoro.update / Carnivoro.update for a living animal:
\* the brain's decision a, then reproduction at the threshold.
MoveAndReproduce(w, i, a) ==
    LET w2 == MoveAndEat(w, i, BRAIN_ACTIONS[a])
    IN  IF w2.cells[i].energy >= w2.cells[i].reproduction
        THEN BrainReproduce(w2, i)
        ELSE {w2}

\* The update with the energy test of line 218 placed after foraging and
\* experimenting instead of before them.
AnimalUpdateForagesFirst(w, i) ==
    LET c  == Upkept(w.cells[i])
        w1 == [w EXCEPT !.cells = [@ EXCEPT ![i] = c]]
    IN  UNION {UNION {IF c.energy <= 0 THEN {t}
                      ELSE UNION {MoveAndReproduce(t, i, a)
                                  : a \in 1 .. Len(BRAIN_ACTIONS)}
                      : t \in AttemptDiscovery(f, i)}
               : f \in FindBasicMaterials(w1, i)}

\* Herbivoro.update / Carnivoro.update: every outcome of the random draws,
\* of the brain's decision and of the choice of the offspring's cell.
AnimalUpdate(w, i) ==
    LET c  == Upkept(w.cells[i])
        w1 == [w EXCEPT !.cells = [@ EXCEPT ![i] = c]]
    IN  IF c.energy <= 0 THEN {w1}
        ELSE UNION {UNION {UNION {MoveAndReproduce(t, i, a)
                                  : a \in 1 .. Len(BRAIN_ACTIONS)}
                           : t \in AttemptDiscovery(f, i)}
                    : f \in FindBasicMaterials(w1, i)}

\* cell.update(world) for the three classes.
CellUpdate(w, i) ==
    IF w.cells[i].kind = "P" THEN PlantaUpdate(w, i) ELSE AnimalUpdate(w, i)

\* ------------------------------------------------------------ end of a tick
\* World.update, lines 108-109: clear the cell at each dead organism's
\* coordinates.
RemoveCells(g, cs, dead) ==
    [p \in Pos |->
        IF \E k \in 1 .. Len(dead) : <<cs[dead[k]].x, cs[dead[k]].y>> = p
        THEN None ELSE g[p]]

\* Lines 111-113 without the test of line 112: every buffered offspring is
\* written into its cell, the last one for a cell staying.
InsertCellsOverwrites(g, cs, new) ==
    [p \in Pos |->
        LET at == {k \in 1 .. Len(new) : <<cs[new[k]].x, cs[new[k]].y>> = p}
        IN  IF at = {} THEN g[p]
            ELSE new[CHOOSE k \in at : \A j \in at : j <= k]]

\* World.update, lines 111-113: place the buffered offspring, in order,
\* each only into a cell that is empty when its turn comes.
RECURSIVE InsertCells(_, _, _)
InsertCells(g, cs, new) ==
    IF new = <<>> THEN g
    ELSE LET n == Head(new)
             p == <<cs[n].x, cs[n].y>>
         IN  InsertCells(IF g[p] = None THEN [g EXCEPT ![p] = n] ELSE g,
                         cs, Tail(new))

\* EvolutionEngine.evolve_population seen from the world: the number of
\* brains returned.  _select_elite keeps max(1, int(n * 0.2)) brains,
\* _generate_offspring copies them, fills up to the target and truncates.
EvolvedBrains(pool, target_population) ==
    LET elite_count == Max(1, (Len(pool) * 2) \div 10)
        filled == Max(elite_count, target_population)
    IN  IF filled > target_population THEN target_population ELSE filled

\* The k-th position of the set S in row-major order.
RECURSIVE Ranked(_, _)
Ranked(S, k) ==
    LET first == CHOOSE p \in S : \A q \in S :
                    p[2] < q[2] \/ (p[2] = q[2] /\ p[1] <= q[1])
    IN  IF k = 1 THEN first ELSE Ranked(S \ {first}, k - 1)

\* World._spawn_evolved_creatures: the outcomes of shuffling the empty
\* positions; the brains take the first of them while positions last.
\* The evolved brains all start with fresh bookkeeping, so the model
\* numbers the creatures by position rather than by brain.
SpawnEvolvedCreatures(e, kind, brains) ==
    LET empty_positions == EmptyPositions(e.grid)
        n == IF brains < Cardinality(empty_positions)
             THEN brains ELSE Cardinality(empty_positions)
    IN  {[e EXCEPT
            !.grid = [p \in Pos |->
                        IF p \in S
                        THEN Len(e.cells)
                             + (CHOOSE k \in 1 .. n : Ranked(S, k) = p)
                        ELSE e.grid[p]],
            !.cells = e.cells \o
                        [k \in 1 .. n |->
                            [DefaultCell(kind, Ranked(S, k)[1], Ranked(S, k)[2])
                             EXCEPT !.origin = "evolved"]]]
         : S \in {T \in SUBSET empty_positions : Cardinality(T) = n}}

CountKind(g, cs, kind) ==
    Cardinality({p \in Pos : g[p] # None /\ cs[g[p]].kind = kind})

\* World._evolve_generation on e = [grid, cells, dead_brains].
EvolveGeneration(e) ==
    LET current_herbivores == CountKind(e.grid, e.cells, "H")
        current_carnivores == CountKind(e.grid, e.cells, "C")
        afterHerbivores ==
            IF e.dead_brains.herbivores # <<>>
            THEN {[s EXCEPT !.dead_brains.herbivores = <<>>]
                  : s \in SpawnEvolvedCreatures(e, "H",
                        EvolvedBrains(e.dead_brains.herbivores,
                            Max(MinHerbivoreBrains,
                                current_herbivores \div PopulationDivisor)))}
            ELSE {e}
    IN  UNION {
          IF h.dead_brains.carnivores # <<>>
          THEN {[s EXCEPT !.dead_brains.carnivores = <<>>]
                : s \in SpawnEvolvedCreatures(h, "C",
                      EvolvedBrains(h.dead_brains.carnivores,
                          Max(MinCarnivoreBrains,
                              current_carnivores \div PopulationDivisor)))}
          ELSE {h}
          : h \in afterHerbivores}

\* Line 116 counting generations from tick 1 instead of tick 0.
EvolutionDueShifted(t) == EvolutionEnabled /\ (t + 1) % GenerationLength = 0

\* World.update, line 116: the tick ends a generation.
EvolutionDue(t) == EvolutionEnabled /\ t % GenerationLength = 0

\* ------------------------------------------------------------------ actions
\* The last host call: the operation, its arguments and its outcome, "ok",
\* "ValueError" (populate raised) or "False" (add_cell refused).
Call(op, args, result) == [op |-> op, args |-> args, result |-> result]

NoCall == Call("World", <<>>, "ok")

\* No component run is in progress.
LabIdle ==
    /\ universe = <<>>
    /\ brain_pool = <<>>
    /\ population = <<>>
    /\ generation = 0
    /\ engine = <<>>
    /\ last_result = <<>>
    /\ calls = 0
    /\ detector = <<>>
    /\ occurrences = <<>>
    /\ networks = <<>>

Init ==
    /\ grid = [p \in Pos |-> None]
    /\ cells = <<>>
    /\ tick = 0
    /\ dead_brains = [herbivores |-> <<>>, carnivores |-> <<>>]
    /\ pc = "idle"
    /\ cells_to_update = <<>>
    /\ new_cells = <<>>
    /\ cells_to_remove = <<>>
    /\ call = NoCall
    /\ updates = <<>>
    /\ placed = {}
    /\ evolved_at = <<>>
    /\ scattered_materials = [p \in Pos |-> None]
    /\ objects = 0
    /\ discoveries = 0
    /\ host = [seed |-> MaxSeed, scattered |-> 0, objects |-> 0]
    /\ consumed = {}
    /\ LabIdle

\* A run whose host scatters native materials before it populates, as
\* CosmicSimulation.create_planet does.
InitMaterials ==
    /\ grid = [p \in Pos |-> None]
    /\ cells = <<>>
    /\ tick = 0
    /\ dead_brains = [herbivores |-> <<>>, carnivores |-> <<>>]
    /\ pc = "idle"
    /\ cells_to_update = <<>>
    /\ new_cells = <<>>
    /\ cells_to_remove = <<>>
    /\ call = NoCall
    /\ updates = <<>>
    /\ placed = {}
    /\ evolved_at = <<>>
    /\ scattered_materials = [p \in Pos |-> None]
    /\ objects = 0
    /\ discoveries = 0
    /\ host = [seed |-> MaxForagers, scattered |-> MaxScattered,
               objects |-> MaxObjects]
    /\ consumed = {}
    /\ LabIdle

Seeded == Cardinality({i \in 1 .. Len(cells) : cells[i].origin = "seed"})

\* populate_random with the carnivores' loop starting where the
\* herbivores' loop starts (line 71 as range(num_plants, total)).
PopulateRandomMiscounts(g, cs, num_plants, num_herbivores, num_carnivores, positions) ==
    LET total_population == num_plants + num_herbivores + num_carnivores
        KindAt(k) == IF k <= num_plants THEN "P" ELSE "C"
    IN  [grid |-> [p \in Pos |->
                     IF \E k \in 1 .. total_population : positions[k] = p
                     THEN Len(cs) + (CHOOSE k \in 1 .. total_population :
                                         positions[k] = p)
                     ELSE g[p]],
         cells |-> cs \o [k \in 1 .. total_population |->
                            DefaultCell(KindAt(k), positions[k][1],
                                        positions[k][2])]]

\* World.populate_random: the grid and the organisms after a successful
\* call, positions being the first entries of the shuffled empty positions.
PopulateRandom(g, cs, num_plants, num_herbivores, num_carnivores, positions) ==
    LET total_population == num_plants + num_herbivores + num_carnivores
        KindAt(k) == IF k <= num_plants THEN "P"
                     ELSE IF k <= num_plants + num_herbivores THEN "H"
                     ELSE "C"
    IN  [grid |-> [p \in Pos |->
                     IF \E k \in 1 .. total_population : positions[k] = p
                     THEN Len(cs) + (CHOOSE k \in 1 .. total_population :
                                         positions[k] = p)
                     ELSE g[p]],
         cells |-> cs \o [k \in 1 .. total_population |->
                            DefaultCell(KindAt(k), positions[k][1],
                                        positions[k][2])]]

\* World.populate(plants, herbivores, carnivores).
Populate(plants, herbivores, carnivores) ==
    LET total_population == plants + herbivores + carnivores
        empty_positions == EmptyPositions(grid)
    IN  /\ pc = "idle"
        /\ tick = 0
        /\ IF Cardinality(empty_positions) < total_population
           THEN /\ call' = Call("populate", <<plants, herbivores, carnivores>>,
                               "ValueError")
                /\ UNCHANGED <<grid, cells, placed>>
           ELSE /\ Seeded + total_population <= host.seed
                /\ \E positions \in Shuffled(empty_positions, total_population) :
                     LET r == PopulateRandom(grid, cells, plants, herbivores,
                                             carnivores, positions)
                     IN  /\ grid' = r.grid
                         /\ cells' = r.cells
                         /\ placed' = placed \cup OnGrid(r.grid)
                /\ call' = Call("populate", <<plants, herbivores, carnivores>>,
                               "ok")
        /\ UNCHANGED <<tick, dead_brains, pc, cells_to_update, new_cells,
                       cells_to_remove, updates, evolved_at,
                       scattered_materials, objects, discoveries, host,
                   consumed>>
        /\ UNCHANGED labVars

\* World.add_cell(cell) for a cell the host constructed.
AddCell(cell) ==
    /\ pc = "idle"
    /\ tick = 0
    /\ Seeded < host.seed
    /\ IF InBounds(cell.x, cell.y) /\ grid[<<cell.x, cell.y>>] = None
       THEN /\ grid' = [grid EXCEPT ![<<cell.x, cell.y>>] = Len(cells) + 1]
            /\ cells' = Append(cells, cell)
            /\ placed' = placed \cup {Len(cells) + 1}
            /\ call' = Call("add_cell", <<>>, "ok")
       ELSE /\ call' = Call("add_cell", <<>>, "False")
            /\ UNCHANGED <<grid, cells, placed>>
    /\ UNCHANGED <<tick, dead_brains, pc, cells_to_update, new_cells,
                   cells_to_remove, updates, evolved_at,
                   scattered_materials, objects, discoveries, host,
                   consumed>>
    /\ UNCHANGED labVars

\* The cells the host constructs for add_cell.
HostCells ==
    UNION {
      {Planta(p[1], p[2], q[1], q[2]) : q \in PlantaParams}
      \cup {Herbivoro(p[1], p[2], e, HerbivoroEnergyPerPlant,
                      HerbivoroReproductionThreshold) : e \in HerbivoroEnergies}
      \cup {Carnivoro(p[1], p[2], e, CarnivoroEnergyPerHerbivore,
                      CarnivoroReproductionThreshold) : e \in CarnivoroEnergies}
      : p \in Pos}

\* World.update, lines 78-89: a new tick and the snapshot.  The shuffle of
\* line 86 makes the pass visit the snapshot in an arbitrary order: the
\* model draws the next cell when the pass reaches it (UpdateCell).
StartTick ==
    /\ pc = "idle"
    /\ tick < MaxTick
    /\ tick' = tick + 1
    /\ cells_to_update' = Snapshot(grid)
    /\ new_cells' = <<>>
    /\ cells_to_remove' = <<>>
    /\ updates' = [i \in OnGrid(grid) |-> 0]
    /\ pc' = "pass"
    /\ call' = Call("update", <<>>, "ok")
    /\ UNCHANGED <<grid, cells, dead_brains, placed, evolved_at,
                   scattered_materials, objects, discoveries, host,
                   consumed>>
    /\ UNCHANGED labVars

\* World.update, lines 91-106: one iteration of the pass, on the k-th of
\* the cells still to visit.
UpdateCell(k) ==
    /\ pc = "pass"
    /\ k \in 1 .. Len(cells_to_update)
    /\ LET cell == cells_to_update[k]
       IN  /\ cells_to_update' = Without(cells_to_update, k)
           /\ IF InSeq(cell, cells_to_remove)
              THEN UNCHANGED <<grid, cells, dead_brains, new_cells,
                               cells_to_remove, updates, placed,
                               scattered_materials, objects, discoveries,
                               consumed>>
              ELSE \E w \in CellUpdate(
                            [grid |-> grid, cells |-> cells, new |-> None,
                             eaten |-> None,
                             scattered_materials |-> scattered_materials,
                             objects |-> objects,
                             discoveries |-> discoveries], cell) :
                     LET dead == ShouldDie(w.cells[cell])
                         kind == w.cells[cell].kind
                     IN  /\ grid' = w.grid
                         /\ cells' = w.cells
                         /\ scattered_materials' = w.scattered_materials
                         /\ objects' = w.objects
                         /\ discoveries' = w.discoveries
                         /\ consumed' = consumed \cup ({w.eaten} \ {None})
                         /\ cells_to_remove' =
                              IF dead THEN Append(cells_to_remove, cell)
                              ELSE cells_to_remove
                         /\ dead_brains' =
                              IF dead /\ EvolutionEnabled /\ kind = "H"
                              THEN [dead_brains EXCEPT
                                      !.herbivores = Append(@, cell)]
                              ELSE IF dead /\ EvolutionEnabled /\ kind = "C"
                              THEN [dead_brains EXCEPT
                                      !.carnivores = Append(@, cell)]
                              ELSE dead_brains
                         /\ new_cells' =
                              IF w.new # None THEN Append(new_cells, w.new)
                              ELSE new_cells
                         /\ updates' = [updates EXCEPT ![cell] = @ + 1]
                         /\ placed' = placed \cup OnGrid(w.grid)
    /\ UNCHANGED <<tick, pc, call, evolved_at, host>>
    /\ UNCHANGED labVars

\* World.update, lines 108-117: removal of the dead, insertion of the
\* buffered offspring and, every generation_length ticks, evolution.
FinishTick ==
    /\ pc = "pass"
    /\ cells_to_update = <<>>
    /\ LET g == InsertCells(RemoveCells(grid, cells, cells_to_remove),
                            cells, new_cells)
           e == [grid |-> g, cells |-> cells, dead_brains |-> dead_brains]
       IN  IF EvolutionDue(tick)
           THEN /\ \E s \in EvolveGeneration(e) :
                     /\ grid' = s.grid
                     /\ cells' = s.cells
                     /\ dead_brains' = s.dead_brains
                     /\ placed' = placed \cup OnGrid(s.grid)
                /\ evolved_at' = Append(evolved_at, tick)
           ELSE /\ grid' = g
                /\ placed' = placed \cup OnGrid(g)
                /\ UNCHANGED <<cells, dead_brains, evolved_at>>
    /\ pc' = "idle"
    /\ UNCHANGED <<tick, cells_to_update, new_cells, cells_to_remove, call,
                   updates, scattered_materials, objects, discoveries, host,
                   consumed>>
    /\ UNCHANGED labVars

\* CosmicSimulation._seed_planet_materials: one placement of a native
\* material; the grid is still empty, the same object may be placed twice.
ScatterMaterial(p, material) ==
    /\ pc = "idle"
    /\ tick = 0
    /\ cells = <<>>
    /\ host.scattered > 0
    /\ grid[p] = None
    /\ scattered_materials' = [scattered_materials EXCEPT ![p] = material]
    /\ host' = [host EXCEPT !.scattered = @ - 1]
    /\ call' = Call("_seed_planet_materials", <<>>, "ok")
    /\ UNCHANGED <<grid, cells, tick, dead_brains, pc, cells_to_update,
                   new_cells, cells_to_remove, updates, placed, evolved_at,
                   objects, discoveries, consumed>>
    /\ UNCHANGED labVars

\* The arguments the host passes to populate: up to one organism more
\* than its budget, so that a request can exceed the empty cells.
PopulateRequests ==
    {r \in (0 .. MaxSeed) \X (0 .. MaxSeed) \X (0 .. MaxSeed) :
        r[1] + r[2] + r[3] <= MaxSeed + 1}

Next ==
    \/ \E r \in PopulateRequests : Populate(r[1], r[2], r[3])
    \/ \E cell \in HostCells : AddCell(cell)
    \/ StartTick
    \/ \E k \in 1 .. Width * Height : UpdateCell(k)
    \/ FinishTick

Spec == Init /\ [][Next]_vars

\* The runs with materials seed animals only, one cell at a time.
NextMaterials ==
    \/ \E p \in Pos, material \in 1 .. NativeMaterials :
         ScatterMaterial(p, material)
    \/ \E cell \in {c \in HostCells : c.kind # "P"} : AddCell(cell)
    \/ StartTick
    \/ \E k \in 1 .. Width * Height : UpdateCell(k)
    \/ FinishTick

SpecMaterials == InitMaterials /\ [][NextMaterials]_vars

\* A herbivore constructed with energy at the reproduction threshold once
\* its first upkeep is paid.
WellFedEnergy == 31

\* Planta(x, y, 2, 4): a plant that clones itself at the ages 2 and 4 and
\* dies at 4.
QuickPlant == <<2, 4>>

\* The cells of a host that seeds quick plants and well-fed herbivores.
BreedingCells ==
    UNION {
      {Planta(p[1], p[2], QuickPlant[1], QuickPlant[2])}
      \cup {Herbivoro(p[1], p[2], e, HerbivoroEnergyPerPlant,
                      HerbivoroReproductionThreshold)
               : e \in {HerbivoroInitialEnergy, WellFedEnergy}}
      \cup {Carnivoro(p[1], p[2], CarnivoroInitialEnergy,
                      CarnivoroEnergyPerHerbivore,
                      CarnivoroReproductionThreshold)}
      : p \in Pos}

NextBreeding ==
    \/ \E cell \in BreedingCells : AddCell(cell)
    \/ StartTick
    \/ \E k \in 1 .. Width * Height : UpdateCell(k)
    \/ FinishTick

SpecBreeding == Init /\ [][NextBreeding]_vars

\* ============================================== components on their own
\* The world at construction, untouched by a component run.
NoWorld ==
    /\ grid = [p \in Pos |-> None]
    /\ cells = <<>>
    /\ tick = 0
    /\ dead_brains = [herbivores |-> <<>>, carnivores |-> <<>>]
    /\ pc = "idle"
    /\ cells_to_update = <<>>
    /\ new_cells = <<>>
    /\ cells_to_remove = <<>>
    /\ updates = <<>>
    /\ placed = {}
    /\ evolved_at = <<>>
    /\ scattered_materials = [p \in Pos |-> None]
    /\ objects = 0
    /\ discoveries = 0
    /\ host = [seed |-> 0, scattered |-> 0, objects |-> 0]
    /\ consumed = {}

worldVars == <<grid, cells, tick, dead_brains, pc, cells_to_update, new_cells,
               cells_to_remove, updates, placed, evolved_at,
               scattered_materials, objects, discoveries, host, consumed>>

Min(a, b) == IF a <= b THEN a ELSE b

\* ------------------------------------------------ properties and objects
\* PropertyRegistry._initialize_basic_properties: the names registered, by
\* PropertyType.  Only the STATE properties are registered non-permanent.
PhysicalProperties ==
    {"es_duro", "es_fragil", "es_cortante", "es_puntiagudo", "es_pesado",
     "es_liviano", "es_flexible", "es_elastico", "es_viscoso",
     "es_cristalino"}

ThermalProperties ==
    {"es_caliente", "es_frio", "es_inflamable", "retiene_calor",
     "conduce_calor", "es_incombustible"}

ChemicalProperties ==
    {"es_acido", "es_alcalino", "es_toxico", "es_reactivo", "es_estable",
     "es_catalizador", "es_explosivo", "es_solvente"}

BiologicalProperties ==
    {"es_organico", "es_vivo", "es_nutritivo", "es_venenoso", "es_curativo",
     "es_regenerativo", "es_fermentable", "es_psicoactivo"}

EnergyProperties ==
    {"conduce_electricidad", "es_magnetico", "brilla", "absorbe_luz",
     "es_radioactivo", "vibra", "es_superconductor", "genera_campo",
     "es_piezoelectrico"}

StateProperties ==
    {"es_humedo", "esta_mojado", "esta_quemado", "esta_roto", "esta_cargado",
     "esta_magnetizado", "esta_activado", "esta_concentrado",
     "esta_purificado", "es_hibrido"}

PROPERTY_REGISTRY ==
    PhysicalProperties \cup ThermalProperties \cup ChemicalProperties
    \cup BiologicalProperties \cup EnergyProperties \cup StateProperties

\* Intensities are floats in the source; the model counts them in ten
\* thousandths, FullIntensity standing for 1.0.
FullIntensity == 10000

\* PropertyRegistry.create_property_instance for a registered name.
PropertyValue(name, intensity) ==
    [intensity |-> intensity, is_permanent |-> name \notin StateProperties]

\* UniverseObject.add_property: nothing happens for an unregistered name.
AddPropertyAt(obj, property_name, intensity) ==
    IF property_name \in PROPERTY_REGISTRY
    THEN [obj EXCEPT !.properties =
            [n \in DOMAIN obj.properties \cup {property_name} |->
               IF n = property_name THEN PropertyValue(n, intensity)
               ELSE obj.properties[n]]]
    ELSE obj

add_property(obj, property_name) ==
    AddPropertyAt(obj, property_name, FullIntensity)

RECURSIVE AddProperties(_, _)
AddProperties(obj, names) ==
    IF names = <<>> THEN obj
    ELSE AddProperties(add_property(obj, Head(names)), Tail(names))

\* UniverseObject.__init__ with ObjectState's defaults.  The change history
\* (a log nothing reads), position, temperature, mass and age are left out.
UniverseObject(name, base_properties) ==
    AddProperties([name |-> name, durability |-> MaxDurability,
                   is_active |-> TRUE, properties |-> <<>>],
                  base_properties)

has_property(obj, property_name) == property_name \in DOMAIN obj.properties

\* UniverseObject.remove_property: only a held, non-permanent property goes.
remove_property(obj, property_name) ==
    IF has_property(obj, property_name)
       /\ ~obj.properties[property_name].is_permanent
    THEN [obj EXCEPT !.properties =
            [n \in DOMAIN obj.properties \ {property_name} |->
               obj.properties[n]]]
    ELSE obj

\* modify_property_intensity removing every property that reaches 0.
ModifyRemovesPermanent(obj, property_name, delta) ==
    IF has_property(obj, property_name)
    THEN LET intensity == Max(0, Min(FullIntensity,
                 obj.properties[property_name].intensity + delta))
         IN  [obj |-> IF intensity <= 0
                      THEN [obj EXCEPT !.properties =
                              [n \in DOMAIN obj.properties \ {property_name}
                                 |-> obj.properties[n]]]
                      ELSE [obj EXCEPT
                              !.properties[property_name].intensity =
                                  intensity],
              result |-> TRUE]
    ELSE [obj |-> obj, result |-> FALSE]

\* UniverseObject.modify_property_intensity: the object afterwards and the
\* value returned.
modify_property_intensity(obj, property_name, delta) ==
    IF has_property(obj, property_name)
    THEN LET intensity == Max(0, Min(FullIntensity,
                 obj.properties[property_name].intensity + delta))
             clamped == [obj EXCEPT
                           !.properties[property_name].intensity = intensity]
         IN  [obj |-> IF intensity <= 0
                         /\ ~obj.properties[property_name].is_permanent
                      THEN remove_property(clamped, property_name)
                      ELSE clamped,
              result |-> TRUE]
    ELSE [obj |-> obj, result |-> FALSE]

\* take_damage that only deactivates below zero.
TakeDamageKeepsActive(obj, amount) ==
    LET durability == Max(0, obj.durability - amount)
        damaged == [obj EXCEPT !.durability = durability]
    IN  IF durability < 0
        THEN [obj |-> [damaged EXCEPT !.is_active = FALSE], result |-> TRUE]
        ELSE [obj |-> damaged, result |-> FALSE]

\* UniverseObject.take_damage: the object afterwards and the value returned.
take_damage(obj, amount) ==
    LET durability == Max(0, obj.durability - amount)
        damaged == [obj EXCEPT !.durability = durability]
    IN  IF durability <= 0
        THEN [obj |-> [damaged EXCEPT !.is_active = FALSE], result |-> TRUE]
        ELSE IF durability < BrokenBelow /\ has_property(damaged, "es_fragil")
        THEN [obj |-> add_property(damaged, "esta_roto"), result |-> FALSE]
        ELSE [obj |-> damaged, result |-> FALSE]

\* UniverseObject.heal.
heal(obj, amount) ==
    [obj EXCEPT !.durability = Min(MaxDurability, obj.durability + amount)]

\* ------------------------------------------------------- a run on objects
\* The objects of a run: a brittle stick and a lump of wet clay.
ObjectCatalogue ==
    {UniverseObject("Palo", <<"es_fragil", "es_organico">>),
     UniverseObject("Arcilla", <<"es_humedo", "es_viscoso">>)}

DamageAmounts == {0, 15, 30, 60, 100}
HealAmounts == {0, 20, 50}
IntensityDeltas == {-15000, -10000, -4000, 4000, 15000}
ModifiedProperties == {"es_fragil", "es_humedo", "esta_roto", "es_duro"}

\* A returned bool as the call record keeps it.
Returned(b) == IF b THEN "True" ELSE "False"

InitObjects ==
    /\ NoWorld
    /\ call = NoCall
    /\ universe \in {<<o>> : o \in ObjectCatalogue}
    /\ brain_pool = <<>>
    /\ population = <<>>
    /\ generation = 0
    /\ engine = <<>>
    /\ last_result = <<>>
    /\ calls = 0
    /\ detector = <<>>
    /\ occurrences = <<>>
    /\ networks = <<>>

TakeDamage(o, amount) ==
    LET r == take_damage(universe[o], amount)
    IN  /\ universe' = [universe EXCEPT ![o] = r.obj]
        /\ call' = Call("take_damage", <<o, amount>>, Returned(r.result))
        /\ UNCHANGED <<worldVars, brain_pool, population, generation, engine,
                   last_result, calls, detector, occurrences, networks>>

Heal(o, amount) ==
    /\ universe' = [universe EXCEPT ![o] = heal(universe[o], amount)]
    /\ call' = Call("heal", <<o, amount>>, "ok")
    /\ UNCHANGED <<worldVars, brain_pool, population, generation, engine,
                   last_result, calls, detector, occurrences, networks>>

ModifyPropertyIntensity(o, property_name, delta) ==
    LET r == modify_property_intensity(universe[o], property_name, delta)
    IN  /\ universe' = [universe EXCEPT ![o] = r.obj]
        /\ call' = Call("modify_property_intensity",
                        <<o, property_name, delta>>, Returned(r.result))
        /\ UNCHANGED <<worldVars, brain_pool, population, generation, engine,
                   last_result, calls, detector, occurrences, networks>>

NextObjects ==
    \E o \in DOMAIN universe :
        \/ \E amount \in DamageAmounts : TakeDamage(o, amount)
        \/ \E amount \in HealAmounts : Heal(o, amount)
        \/ \E property_name \in ModifiedProperties, delta \in IntensityDeltas :
              ModifyPropertyIntensity(o, property_name, delta)

SpecObjects == InitObjects /\ [][NextObjects]_vars

\* ------------------------------------------------------- evolution engine
MaxPool == 10
MaxTarget == 3

\* A network's weights, as far as the engine is concerned: the weights of
\* the n-th brain of the pool (n), or weights no brain of the pool has.
FreshWeights == 0

\* CellBrain.__init__ around a network.
CellBrain(network) ==
    [network |-> network, fitness |-> 0, age_at_death |-> 0,
     energy_gained |-> 0, offspring_count |-> 0]

\* The bookkeeping dead brains arrive with: a brain that died at once and
\* one that lived, fed and bred.
DeadBrainProfiles ==
    {[age_at_death |-> 0, energy_gained |-> 0, offspring_count |-> 0],
     [age_at_death |-> 2, energy_gained |-> 30, offspring_count |-> 1]}

\* Fitness is a float in the source; the model counts it in thousandths.
FitnessUnit == 1000

\* EvolutionEngine._calculate_raw_fitness.  offspring_count ** 1.5 is the
\* count itself for the counts 0 and 1 of the profiles.
RawFitness(brain) ==
    Max(0, 2 * FitnessUnit * brain.age_at_death
           + (FitnessUnit * brain.energy_gained) \div 10
           + 20 * FitnessUnit * brain.offspring_count
           + IF brain.age_at_death > 0
             THEN (5 * FitnessUnit * brain.energy_gained)
                      \div brain.age_at_death
             ELSE 0)

\* EvolutionEngine._calculate_fitness: raw scores, normalised only when
\* they are not all equal.
CalculateFitness(brains) ==
    LET raw == [i \in DOMAIN brains |-> RawFitness(brains[i])]
        fitnesses == {raw[i] : i \in DOMAIN brains}
        min_fit == CHOOSE f \in fitnesses : \A g \in fitnesses : f <= g
        max_fit == CHOOSE f \in fitnesses : \A g \in fitnesses : f >= g
    IN  [i \in DOMAIN brains |->
           [brains[i] EXCEPT !.fitness =
              IF Cardinality(fitnesses) > 1
              THEN ((raw[i] - min_fit) * FitnessUnit) \div (max_fit - min_fit)
              ELSE raw[i]]]

\* sorted(brains, key=fitness, reverse=True): the pool's indexes, fittest
\* first, equally fit brains in pool order (the sort is stable).
SortedBrains(brains) ==
    LET Before(i, j) == \/ brains[i].fitness > brains[j].fitness
                        \/ brains[i].fitness = brains[j].fitness /\ i < j
    IN  [k \in DOMAIN brains |->
           CHOOSE i \in DOMAIN brains :
              Cardinality({j \in DOMAIN brains : Before(j, i)}) = k - 1]

EliteCount(n) == Max(1, (n * 2) \div 10)

\* EvolutionEngine._select_elite: the indexes of the elite brains.
SelectElite(brains) ==
    SubSeq(SortedBrains(brains), 1, EliteCount(Len(brains)))

\* CellBrain.reproduce: the children a brain of the pool can have, alone
\* or with a partner.  Crossover takes each weight from either parent and
\* mutate changes each weight with probability 0.1, so the child's weights
\* can be those of a parent or weights of its own.
Reproduce(brains, parent, partner) ==
    {[child |-> CellBrain(network),
      brains |-> [brains EXCEPT ![parent].offspring_count = @ + 1]] :
        network \in {brains[parent].network, FreshWeights}
                    \cup (IF partner = None THEN {}
                          ELSE {brains[partner].network})}

\* The elite brains as _generate_offspring keeps them.
Survivors(brains, elite_brains) ==
    [k \in DOMAIN elite_brains |-> CellBrain(brains[elite_brains[k]].network)]

\* The while loop of _generate_offspring: the outcomes of filling offspring
\* up to target_population, then the slice offspring[:target_population].
RECURSIVE FillOffspring(_, _, _, _)
FillOffspring(offspring, brains, elite_brains, target_population) ==
    IF Len(offspring) >= target_population
    THEN {[population |-> SubSeq(offspring, 1, target_population),
           brains |-> brains]}
    ELSE LET elites == {elite_brains[k] : k \in DOMAIN elite_brains}
             births ==
                 UNION {Reproduce(brains, parent, None) : parent \in elites}
                 \cup UNION {UNION {Reproduce(brains, parent1, parent2) :
                                      parent2 \in IF Len(elite_brains) >= 2
                                                  THEN elites \ {parent1}
                                                  ELSE {}} :
                               parent1 \in elites}
         IN  UNION {FillOffspring(Append(offspring, b.child), b.brains,
                                  elite_brains, target_population) :
                       b \in births}

\* _generate_offspring returning the whole of offspring.
GenerateOffspringUntruncated(brains, elite_brains, target_population) ==
    {[population |-> Survivors(brains, elite_brains) \o r.population,
      brains |-> r.brains] :
        r \in FillOffspring(<<>>, brains, elite_brains,
                 Max(0, target_population - Len(elite_brains)))}

\* _generate_offspring keeping the elite through reproduce.
GenerateOffspringMutatesElite(brains, elite_brains, target_population) ==
    FillOffspring(<<>>, brains, elite_brains, target_population)

\* EvolutionEngine._generate_offspring.
GenerateOffspring(brains, elite_brains, target_population) ==
    FillOffspring(Survivors(brains, elite_brains), brains, elite_brains,
                  target_population)

\* EvolutionEngine.evolve_population: the populations it can return, with
\* the pool as the call leaves it and the engine's generation counter.
EvolvePopulation(brains, target_population, gen) ==
    IF brains = <<>>
    THEN {[population |-> [k \in 1 .. target_population |->
                              CellBrain(FreshWeights)],
           brains |-> brains, generation |-> gen]}
    ELSE LET scored == CalculateFitness(brains)
         IN  {[population |-> r.population, brains |-> r.brains,
               generation |-> gen + 1] :
                r \in GenerateOffspring(scored, SelectElite(scored),
                                        target_population)}

\* The pools of dead brains handed to the engine: the n-th brain has the
\* weights n.
DeadBrainPools ==
    UNION {{[i \in 1 .. n |->
               [CellBrain(i) EXCEPT
                  !.age_at_death = profile[i].age_at_death,
                  !.energy_gained = profile[i].energy_gained,
                  !.offspring_count = profile[i].offspring_count]] :
            profile \in [1 .. n -> DeadBrainProfiles]} : n \in 0 .. MaxPool}

InitEvolution ==
    /\ NoWorld
    /\ call = NoCall
    /\ universe = <<>>
    /\ brain_pool \in DeadBrainPools
    /\ population = <<>>
    /\ generation = 0
    /\ engine = <<>>
    /\ last_result = <<>>
    /\ calls = 0
    /\ detector = <<>>
    /\ occurrences = <<>>
    /\ networks = <<>>

\* One evolve_population call on the pool.
Evolve(target_population) ==
    /\ call.op # "evolve_population"
    /\ \E r \in EvolvePopulation(brain_pool, target_population,
                                  generation) :
          /\ brain_pool' = r.brains
          /\ population' = r.population
          /\ generation' = r.generation
    /\ call' = Call("evolve_population", <<Len(brain_pool), target_population>>,
                    "ok")
    /\ UNCHANGED <<worldVars, universe, engine, last_result, calls,
                   detector, occurrences, networks>>

NextEvolution == \E target_population \in 0 .. MaxTarget :
                     Evolve(target_population)

SpecEvolution == InitEvolution /\ [][NextEvolution]_vars

\* ------------------------------------------------------ interaction engine
MaxInteractions == 3

\* InteractionType: the recognised action kinds.
InteractionType ==
    {"combine", "strike", "apply", "mix", "heat", "cool", "pressure",
     "touch"}

\* str.lower on the action kinds a run passes.
Lower(action) ==
    IF action = "Strike" THEN "strike"
    ELSE IF action = "COMBINE" THEN "combine"
    ELSE action

\* CombinationResult.__init__.  modified_objects and destroyed_objects name
\* the actor or the target of the call; new_objects holds the objects made.
CombinationResult ==
    [success |-> FALSE, new_objects |-> <<>>, modified_objects |-> <<>>,
     destroyed_objects |-> <<>>, description |-> "",
     significance_score |-> 0]

add_new_object(r, obj) == [r EXCEPT !.new_objects = Append(@, obj)]

add_modified_object(r, who) ==
    IF InSeq(who, r.modified_objects) THEN r
    ELSE [r EXCEPT !.modified_objects = Append(@, who)]

add_destroyed_object(r, who) == [r EXCEPT !.destroyed_objects = Append(@, who)]

\* The STATE properties an object holds.
StateCount(obj) == Cardinality(DOMAIN obj.properties \cap StateProperties)

RECURSIVE SumStateCounts(_, _)
SumStateCounts(c, who) ==
    IF who = <<>> THEN 0
    ELSE StateCount(IF Head(who) = "actor" THEN c.actor ELSE c.target)
         + SumStateCounts(c, Tail(who))

\* CombinationResult.calculate_significance, on the interaction c (actor,
\* target and result): the score replaces whatever the result carried.
calculate_significance(c) ==
    [c EXCEPT !.result.significance_score =
        10 * Len(c.result.new_objects)
        + 2 * SumStateCounts(c, c.result.modified_objects)
        + 5 * Len(c.result.destroyed_objects)]

\* The rules of _initialize_base_rules a call of a run can match, in
\* registration order: those of the kinds strike, mix, pressure, apply and
\* combine whose trigger properties the objects of a run hold.  Probability
\* in percent.
Rules ==
    <<[trigger_properties |-> <<"es_cortante">>,
       target_properties |-> <<"es_fragil">>, action_type |-> "strike",
       result_function |-> "_rule_cutting", probability |-> 100],
      [trigger_properties |-> <<"es_duro">>,
       target_properties |-> <<"es_fragil">>, action_type |-> "strike",
       result_function |-> "_rule_breaking", probability |-> 100],
      [trigger_properties |-> <<"es_reactivo">>,
       target_properties |-> <<"es_reactivo">>, action_type |-> "mix",
       result_function |-> "_rule_chemical_reaction", probability |-> 60],
      [trigger_properties |-> <<"es_cortante">>,
       target_properties |-> <<"es_fragil", "es_organico">>,
       action_type |-> "pressure",
       result_function |-> "_rule_tool_creation", probability |-> 100],
      [trigger_properties |-> <<"es_organico">>,
       target_properties |-> <<"es_organico">>, action_type |-> "mix",
       result_function |-> "_rule_organic_mixing", probability |-> 30],
      [trigger_properties |-> <<"es_explosivo">>,
       target_properties |-> <<"es_caliente", "es_reactivo">>,
       action_type |-> "apply",
       result_function |-> "_rule_explosion", probability |-> 80],
      [trigger_properties |-> <<"conduce_electricidad">>,
       target_properties |-> <<"es_magnetico">>, action_type |-> "combine",
       result_function |-> "_rule_advanced_conductor", probability |-> 30]>>

\* InteractionEngine._find_applicable_rules, without a tool: the indexes of
\* the applicable rules (no rule of the table requires a tool).
FindApplicableRules(actor, target, interaction_type) ==
    {k \in DOMAIN Rules :
        /\ Rules[k].action_type = interaction_type
        /\ \A n \in DOMAIN Rules[k].trigger_properties :
              has_property(actor, Rules[k].trigger_properties[n])
        /\ \E n \in DOMAIN Rules[k].target_properties :
              has_property(target, Rules[k].target_properties[n])}

RECURSIVE SumIntensities(_, _)
SumIntensities(obj, names) ==
    IF names = <<>> THEN 0
    ELSE (IF has_property(obj, Head(names))
          THEN obj.properties[Head(names)].intensity ELSE 0)
         + SumIntensities(obj, Tail(names))

\* The score of _select_best_rule, times FullIntensity.
RuleScore(rule, actor, target) ==
    10 * SumIntensities(actor, rule.trigger_properties)
    + 5 * SumIntensities(target, rule.target_properties)
    + FullIntensity * (Len(rule.trigger_properties)
                       + Len(rule.target_properties))

\* _select_best_rule returning the first applicable rule whatever the
\* scores.
SelectBestRuleByOrder(rules, actor, target) ==
    CHOOSE k \in rules : \A j \in rules : k <= j

\* InteractionEngine._select_best_rule: the highest score, the earliest
\* registered among equals (the sort is stable).
SelectBestRule(rules, actor, target) ==
    CHOOSE k \in rules :
        \A j \in rules :
           \/ RuleScore(Rules[k], actor, target)
                 > RuleScore(Rules[j], actor, target)
           \/ /\ RuleScore(Rules[k], actor, target)
                    = RuleScore(Rules[j], actor, target)
              /\ k <= j

\* target.take_damage(amount) within an interaction.
Damaged(c, amount) ==
    [obj |-> [c EXCEPT !.target = take_damage(c.target, amount).obj],
     destroyed |-> take_damage(c.target, amount).result]

\* The names the rules compose from the names of the objects of a run:
\* f"{target.name} Puntiagudo", f"Compuesto de {actor.name} y
\* {target.name}" and f"Mezcla de {actor.name} y {target.name}".
ComposedName(made, actor_name, target_name) ==
    IF made = "Puntiagudo" /\ target_name = "Palo" THEN "Palo Puntiagudo"
    ELSE IF made = "Puntiagudo" /\ target_name = "Junco"
    THEN "Junco Puntiagudo"
    ELSE IF made = "Compuesto" /\ actor_name = "Polvora"
    THEN "Compuesto de Polvora y Salitre"
    ELSE IF made = "Compuesto" /\ actor_name = "Salitre"
    THEN "Compuesto de Salitre y Polvora"
    ELSE made

\* InteractionEngine._rule_cutting.
RuleCutting(c) ==
    LET sharpness == c.actor.properties["es_cortante"].intensity
        target_resistance == c.target.properties["es_fragil"].intensity
        broken == [c EXCEPT !.target = add_property(@, "esta_roto")]
        pieces == IF has_property(c.target, "es_organico")
                  THEN {broken,
                        [broken EXCEPT !.result = add_new_object(@,
                            UniverseObject(
                               ComposedName("Puntiagudo", c.actor.name,
                                            c.target.name),
                               <<"es_organico", "es_puntiagudo",
                                 "es_fragil">>))]}
                  ELSE {broken}
    IN  IF sharpness > target_resistance
        THEN {[Damaged(p, (sharpness * 20) \div FullIntensity).obj
                  EXCEPT !.result = add_modified_object(@, "target")] :
                p \in pieces}
        ELSE {c}

\* _rule_breaking marking the target broken without damaging it.
RuleBreakingSparesTarget(c) ==
    {[c EXCEPT !.result = add_modified_object(@, "target"),
               !.target = add_property(@, "esta_roto")]}

\* InteractionEngine._rule_breaking.
RuleBreaking(c) ==
    LET hardness == c.actor.properties["es_duro"].intensity
        fragility == c.target.properties["es_fragil"].intensity
        damage == (((hardness * fragility) \div FullIntensity) * 25)
                      \div FullIntensity
        d == Damaged(c, damage)
    IN  IF d.destroyed
        THEN {[d.obj EXCEPT !.result = add_destroyed_object(@, "target")]}
        ELSE {[d.obj EXCEPT !.result = add_modified_object(@, "target"),
                            !.target = add_property(@, "esta_roto")]}

\* InteractionEngine._rule_tool_creation.
RuleToolCreation(c) ==
    LET sharpness == c.actor.properties["es_cortante"].intensity
        spear == [UniverseObject("Lanza Primitiva",
                     <<"es_organico", "es_puntiagudo", "es_liviano">>)
                  EXCEPT !.durability = (c.target.durability * 8) \div 10]
    IN  IF has_property(c.target, "es_organico")
           /\ has_property(c.target, "es_fragil")
           /\ 10 * sharpness > 6 * FullIntensity
        THEN {c, [c EXCEPT !.result =
                    [add_destroyed_object(add_new_object(@, spear), "target")
                     EXCEPT !.significance_score = @ + 15]]}
        ELSE {c}

\* InteractionEngine._rule_chemical_reaction: the compound takes its
\* properties from the reactants and, three times in ten, one special
\* property more.
RuleChemicalReaction(c) ==
    LET compound_properties ==
            IF has_property(c.actor, "es_acido")
               /\ has_property(c.target, "es_alcalino")
            THEN <<"es_estable", "es_cristalino">>
            ELSE IF has_property(c.actor, "es_explosivo")
                    \/ has_property(c.target, "es_explosivo")
            THEN <<"es_reactivo", "brilla", "es_caliente">>
            ELSE <<"es_reactivo", "es_hibrido">>
        special == {"es_catalizador", "es_solvente", "conduce_electricidad"}
        compound_name == ComposedName("Compuesto", c.actor.name,
                                      c.target.name)
    IN  {[c EXCEPT !.result =
            add_destroyed_object(
               add_destroyed_object(
                  add_new_object(@, UniverseObject(compound_name, props)),
                  "actor"), "target")] :
           props \in {compound_properties}
                     \cup {Append(compound_properties, extra) :
                              extra \in special}}

\* InteractionEngine._rule_organic_mixing: four times in ten a mixture,
\* one time in ten of those with a special property; es_concentrado is not
\* a registered property and is not added.
RuleOrganicMixing(c) ==
    LET common == IF has_property(c.actor, "es_nutritivo")
                     /\ has_property(c.target, "es_nutritivo")
                  THEN <<"es_nutritivo">> ELSE <<>>
        new_properties ==
            common \o (IF has_property(c.actor, "es_venenoso")
                          \/ has_property(c.target, "es_venenoso")
                       THEN <<"es_organico", "es_venenoso">>
                       ELSE <<"es_organico">>)
        special_properties ==
            {"brilla", "es_concentrado", "conduce_electricidad"}
        mixture_name == ComposedName("Mezcla", c.actor.name, c.target.name)
    IN  {c} \cup
        {[c EXCEPT !.result =
            add_destroyed_object(
               add_destroyed_object(
                  add_new_object(@, UniverseObject(mixture_name, props)),
                  "actor"), "target")] :
           props \in {new_properties}
                     \cup {Append(new_properties, extra) :
                              extra \in special_properties}}

\* The fragments _rule_explosion chooses from.
fragment_types ==
    {UniverseObject("Fragmentos Metalicos",
        <<"es_duro", "es_cortante", "conduce_electricidad">>),
     UniverseObject("Ceniza Reactiva",
        <<"es_organico", "es_reactivo", "es_fragil">>),
     UniverseObject("Plasma",
        <<"brilla", "es_caliente", "conduce_electricidad", "vibra">>)}

\* InteractionEngine._rule_explosion: the explosion, half of the time a
\* fragment as well, and 80 damage to the target.
RuleExplosion(c) ==
    LET explosion == UniverseObject("Explosion",
                        <<"es_caliente", "brilla", "vibra">>)
        blown == [c EXCEPT !.result =
                    add_destroyed_object(add_new_object(@, explosion),
                                         "actor")]
    IN  {[Damaged(b, 80).obj EXCEPT
             !.result = add_modified_object(@, "target")] :
           b \in {blown}
                 \cup {[blown EXCEPT !.result = add_new_object(@, fragment)] :
                          fragment \in fragment_types}}

\* The materials _rule_advanced_conductor chooses from.
advanced_materials ==
    {UniverseObject("Superconductor",
        <<"es_superconductor", "es_frio", "conduce_electricidad">>),
     UniverseObject("Electromagneto",
        <<"conduce_electricidad", "es_magnetico", "genera_campo">>),
     UniverseObject("Bobina de Induccion",
        <<"conduce_electricidad", "es_magnetico", "vibra",
          "genera_campo">>)}

\* InteractionEngine._rule_advanced_conductor.
RuleAdvancedConductor(c) ==
    {[c EXCEPT !.result =
        [add_destroyed_object(
            add_destroyed_object(add_new_object(@, material), "actor"),
            "target")
         EXCEPT !.significance_score = @ + 20]] :
       material \in advanced_materials}

\* best_rule.result_function(actor, target, tool, result).
ResultFunction(rule, c) ==
    IF rule.result_function = "_rule_cutting" THEN RuleCutting(c)
    ELSE IF rule.result_function = "_rule_breaking" THEN RuleBreaking(c)
    ELSE IF rule.result_function = "_rule_tool_creation"
    THEN RuleToolCreation(c)
    ELSE IF rule.result_function = "_rule_chemical_reaction"
    THEN RuleChemicalReaction(c)
    ELSE IF rule.result_function = "_rule_organic_mixing"
    THEN RuleOrganicMixing(c)
    ELSE IF rule.result_function = "_rule_explosion" THEN RuleExplosion(c)
    ELSE RuleAdvancedConductor(c)

\* UniverseObject.get_interaction_strength, times 100 * FullIntensity.
InteractionStrength(obj) ==
    LET Part(name, weight) ==
            IF has_property(obj, name)
            THEN obj.properties[name].intensity * weight ELSE 0
    IN  (Part("es_duro", 10) + Part("es_cortante", 15)
         + Part("es_puntiagudo", 12)) * obj.durability

\* The damage of a generic strike, max(1, int(strength - durability * 0.1)).
\* The float difference can fall a hair short of a whole number, and int
\* then gives one less: both values are outcomes.
GenericStrikeDamage(actor, target) ==
    LET unit == 100 * FullIntensity
        v == InteractionStrength(actor) - 10 * FullIntensity * target.durability
    IN  IF v <= 0 THEN {1}
        ELSE IF v % unit = 0
        THEN {Max(1, v \div unit), Max(1, v \div unit - 1)}
        ELSE {Max(1, v \div unit)}

\* InteractionEngine._random_property_exchange: the outcomes of the draw
\* and of random.choice over the transferable properties.
RandomPropertyExchange(c) ==
    LET transferable_props ==
            {n \in DOMAIN c.actor.properties :
                /\ ~c.actor.properties[n].is_permanent
                /\ 10 * c.actor.properties[n].intensity > 3 * FullIntensity}
    IN  {c} \cup
        {LET transfer_amount == (c.actor.properties[n].intensity * 3) \div 10
         IN  [c EXCEPT
                !.target = AddPropertyAt(@, n, transfer_amount),
                !.actor = modify_property_intensity(@, n,
                              -transfer_amount).obj,
                !.result = [add_modified_object(
                               add_modified_object(@, "actor"), "target")
                            EXCEPT !.success = TRUE,
                                   !.description = "transferred"]] :
           n \in transferable_props}

\* InteractionEngine._generic_interaction: only a strike and a combine
\* have a generic effect among the kinds of a run.
GenericInteraction(c, interaction_type) ==
    IF interaction_type = "strike"
    THEN {[c EXCEPT !.target = take_damage(@, damage).obj,
                    !.result = [add_modified_object(@, "target")
                                EXCEPT !.description = "strikes",
                                       !.success = damage > 0]] :
            damage \in GenericStrikeDamage(c.actor, c.target)}
    ELSE IF interaction_type = "combine"
    THEN {c} \cup RandomPropertyExchange(c)
    ELSE {c}

\* InteractionEngine._log_interaction.
LogInteraction(e, actor, target, interaction_type) ==
    [e EXCEPT !.interaction_history =
        Append(@, [actor |-> actor.name, target |-> target.name,
                   action |-> interaction_type,
                   timestamp |-> Len(e.interaction_history)])]

\* One more under key in a table of counts.
Counted(table, key) ==
    [k \in DOMAIN table \cup {key} |->
        IF k \in DOMAIN table
        THEN (IF k = key THEN table[k] + 1 ELSE table[k])
        ELSE 1]

\* InteractionEngine._store_interaction_result; the model keeps the number
\* of results stored under a key of discovered_combinations.  The names are
\* those the objects had when the call was made.
StoreInteractionResult(e, key, r) ==
    IF r.success
    THEN [e EXCEPT !.discovered_combinations = Counted(@, key)]
    ELSE [e EXCEPT !.failed_attempts = Counted(@, key)]

\* InteractionEngine.interact without a tool: every outcome of the draws.
\* An unrecognised kind makes InteractionType(...) raise before the log.
Interact(e, actor, target, action) ==
    LET c0 == [actor |-> actor, target |-> target,
               result |-> CombinationResult]
        interaction_type == Lower(action)
        logged == LogInteraction(e, actor, target, interaction_type)
        applicable_rules == FindApplicableRules(actor, target,
                                                interaction_type)
        best_rule == Rules[SelectBestRule(applicable_rules, actor, target)]
        key == <<actor.name, target.name, interaction_type>>
        Finished(c) ==
            LET scored == calculate_significance(c)
            IN  [c |-> scored, raised |-> FALSE,
                 engine |-> StoreInteractionResult(logged, key,
                                                   scored.result)]
    IN  IF interaction_type \notin InteractionType
        THEN {[c |-> c0, raised |-> TRUE, engine |-> e]}
        ELSE IF applicable_rules = {}
        THEN {[c |-> g, raised |-> FALSE, engine |-> logged] :
                g \in GenericInteraction(c0, interaction_type)}
        ELSE {Finished([h EXCEPT !.result.success = TRUE,
                                 !.result.description =
                                     best_rule.result_function]) :
                h \in ResultFunction(best_rule, c0)}
             \cup (IF best_rule.probability < 100
                   THEN {Finished([c0 EXCEPT !.result.description =
                                                 "failed"])}
                   ELSE {})

\* ------------------------------------------------------ a run of the engine
\* The pairs of objects a run starts from.
EnginePairs ==
    LET Piedra == UniverseObject("Piedra", <<"es_duro">>)
        Cuchilla == UniverseObject("Cuchilla", <<"es_cortante", "es_duro">>)
        Palo == UniverseObject("Palo", <<"es_fragil", "es_organico">>)
        Cobre == UniverseObject("Cobre", <<"conduce_electricidad">>)
        Iman == UniverseObject("Iman", <<"es_magnetico">>)
        Polvora == UniverseObject("Polvora", <<"es_explosivo", "es_reactivo">>)
        Salitre == UniverseObject("Salitre", <<"es_reactivo">>)
        Roca == UniverseObject("Roca", <<"es_duro">>)
        Vidrio == UniverseObject("Vidrio", <<"es_fragil">>)
        \* a dull blade: add_property("es_cortante", 0.7) on a hard object
        Mellada == AddPropertyAt(UniverseObject("Mellada", <<"es_duro">>),
                                 "es_cortante", (FullIntensity * 7) \div 10)
        \* a wet reed
        Junco == UniverseObject("Junco", <<"es_fragil", "es_organico",
                                          "es_humedo", "esta_mojado">>)
    IN  {<<Piedra, Palo>>, <<Cuchilla, Palo>>, <<Cobre, Iman>>,
         <<Polvora, Salitre>>, <<Roca, Vidrio>>, <<Mellada, Junco>>}

\* The action kinds a run passes: recognised ones, one in capitals and one
\* that is no InteractionType.
RunActions ==
    {"strike", "pressure", "combine", "mix", "apply", "Strike", "smash"}

\* InteractionEngine.__init__.
NewEngine ==
    [interaction_history |-> <<>>, discovered_combinations |-> <<>>,
     failed_attempts |-> <<>>]

InitEngine ==
    /\ NoWorld
    /\ call = NoCall
    /\ universe \in EnginePairs
    /\ brain_pool = <<>>
    /\ population = <<>>
    /\ generation = 0
    /\ engine = NewEngine
    /\ last_result = CombinationResult
    /\ calls = 0
    /\ detector = <<>>
    /\ occurrences = <<>>
    /\ networks = <<>>

\* One interact call of the host on two distinct objects of the run.
InteractCall(a, t, action) ==
    /\ a # t
    /\ calls < MaxInteractions
    /\ \E o \in Interact(engine, universe[a], universe[t], action) :
          /\ universe' = [universe EXCEPT ![a] = o.c.actor,
                                          ![t] = o.c.target]
          /\ engine' = o.engine
          /\ last_result' = IF o.raised THEN last_result ELSE o.c.result
          /\ call' = Call("interact", <<a, t, action>>,
                          IF o.raised THEN "ValueError" ELSE "ok")
    /\ calls' = calls + 1
    /\ UNCHANGED <<worldVars, brain_pool, population, generation, detector,
                   occurrences, networks>>

NextEngine ==
    \E a, t \in DOMAIN universe, action \in RunActions :
        InteractCall(a, t, action)

SpecEngine == InitEngine /\ [][NextEngine]_vars

\* ------------------------------------------------------ discovery detector
MaxAnalyses == 4

significance_threshold == 5
BreakthroughFactor == 2
ReproducibleAfter == 3
ToolSignificanceBonus == 5

NoDiscovery == [id |-> <<"None", 0>>]

\* DiscoveryDetector.__init__.  discoveries keeps the records in insertion
\* order, object_patterns the times_created of each signature and
\* property_emergence its keys.
NewDetector ==
    [discoveries |-> <<>>, object_patterns |-> <<>>,
     property_emergence |-> {}, next_discovery_id |-> 1]

\* DiscoveryDetector._get_object_signature: the name and the sorted
\* property names.
GetObjectSignature(obj) == <<obj.name, DOMAIN obj.properties>>

\* DiscoveryDetector._is_functional_tool.
IsFunctionalTool(obj) ==
    \E prop \in {"es_puntiagudo", "es_cortante", "es_duro"} :
        has_property(obj, prop)

\* DiscoveryDetector._is_tool_creation.
IsToolCreation(r) ==
    \E k \in DOMAIN r.new_objects : IsFunctionalTool(r.new_objects[k])

\* DiscoveryDetector._classify_object_discovery.
ClassifyObjectDiscovery(obj) ==
    IF IsFunctionalTool(obj) THEN "tool_creation"
    ELSE IF Cardinality(DOMAIN obj.properties) > 3 THEN "compound_creation"
    ELSE "new_object"

\* A Discovery: the id (prefix and number), the type, the name (its fixed
\* words and the object's name), the significance, the properties involved
\* and the reproducible flag.
Discovery(prefix, number, discovery_type, words, obj_name, significance, props) ==
    [id |-> <<prefix, number>>, discovery_type |-> discovery_type,
     name |-> <<words, obj_name>>, significance |-> significance,
     properties_involved |-> props, reproducible |-> FALSE]

\* The first discovery of the table under this name is marked reproducible.
MarkReproducible(table, name) ==
    IF \E k \in DOMAIN table : table[k].name = name
    THEN LET first == CHOOSE k \in DOMAIN table :
                         /\ table[k].name = name
                         /\ \A j \in 1 .. k - 1 : table[j].name # name
         IN  [table EXCEPT ![first].reproducible = TRUE]
    ELSE table

\* DiscoveryDetector._detect_new_object_discovery over the new objects
\* still to look at: the detector afterwards and the discovery returned.
RECURSIVE DetectNewObjectDiscovery(_, _, _)
DetectNewObjectDiscovery(d, r, new_objects) ==
    IF new_objects = <<>> THEN [detector |-> d, discovery |-> NoDiscovery]
    ELSE LET new_obj == Head(new_objects)
             object_signature == GetObjectSignature(new_obj)
         IN  IF object_signature \notin DOMAIN d.object_patterns
             THEN [detector |->
                     [d EXCEPT !.next_discovery_id = @ + 1,
                               !.object_patterns =
                                   Counted(@, object_signature)],
                   discovery |->
                     Discovery("DISC", d.next_discovery_id,
                               ClassifyObjectDiscovery(new_obj),
                               "Discovery of", new_obj.name,
                               r.significance_score,
                               DOMAIN new_obj.properties)]
             ELSE LET counted == Counted(d.object_patterns, object_signature)
                      d1 == [d EXCEPT
                               !.object_patterns = counted,
                               !.discoveries =
                                  IF counted[object_signature]
                                        >= ReproducibleAfter
                                  THEN MarkReproducible(@,
                                          <<"Discovery of", new_obj.name>>)
                                  ELSE @]
                  IN  DetectNewObjectDiscovery(d1, r, Tail(new_objects))

\* DiscoveryDetector._detect_property_discovery over the modified objects
\* still to look at.  Every result analysed has a significance above
\* 0.8 times the threshold.
RECURSIVE DetectPropertyDiscovery(_, _, _)
DetectPropertyDiscovery(d, r, modified_objects) ==
    IF modified_objects = <<>>
    THEN [detector |-> d, discovery |-> NoDiscovery]
    ELSE LET obj == Head(modified_objects)
             state_properties ==
                 {n \in DOMAIN obj.properties :
                     ~obj.properties[n].is_permanent}
             new_properties ==
                 {n \in state_properties :
                     <<obj.name, n>> \notin d.property_emergence}
             d1 == [d EXCEPT !.property_emergence =
                       @ \cup {<<obj.name, n>> : n \in new_properties}]
         IN  IF new_properties # {}
                /\ 10 * r.significance_score > 8 * significance_threshold
             THEN [detector |-> [d1 EXCEPT !.next_discovery_id = @ + 1],
                   discovery |->
                     Discovery("PROP", d.next_discovery_id,
                               "property_combination", "New properties on",
                               obj.name, r.significance_score,
                               new_properties)]
             ELSE DetectPropertyDiscovery(d1, r, Tail(modified_objects))

\* DiscoveryDetector._detect_tool_discovery: a record for the first
\* functional tool among the new objects (there is one).
DetectToolDiscovery(d, r) ==
    LET k == CHOOSE k \in DOMAIN r.new_objects :
                /\ IsFunctionalTool(r.new_objects[k])
                /\ \A j \in 1 .. k - 1 : ~IsFunctionalTool(r.new_objects[j])
        new_obj == r.new_objects[k]
    IN  [detector |-> [d EXCEPT !.next_discovery_id = @ + 1],
         discovery |->
           Discovery("TOOL", d.next_discovery_id, "tool_creation",
                     "Tool Creation:", new_obj.name,
                     r.significance_score + ToolSignificanceBonus,
                     DOMAIN new_obj.properties)]

\* _update_knowledge_base retagging above the threshold itself.
UpdateKnowledgeBaseFromThreshold(discovery) ==
    IF discovery.significance > significance_threshold
    THEN [discovery EXCEPT !.discovery_type = "breakthrough"]
    ELSE discovery

\* DiscoveryDetector._update_knowledge_base.
UpdateKnowledgeBase(discovery) ==
    IF discovery.significance > BreakthroughFactor * significance_threshold
    THEN [discovery EXCEPT !.discovery_type = "breakthrough"]
    ELSE discovery

\* analyze_interaction_result without the test of the significance
\* threshold.
AnalyzeBelowThreshold(d, r) ==
    IF ~r.success
    THEN [detector |-> d, discovery |-> NoDiscovery]
    ELSE LET first ==
                 IF r.new_objects # <<>>
                 THEN DetectNewObjectDiscovery(d, r, r.new_objects)
                 ELSE IF r.modified_objects # <<>>
                 THEN DetectPropertyDiscovery(d, r, r.modified_objects)
                 ELSE [detector |-> d, discovery |-> NoDiscovery]
             second ==
                 IF first.discovery = NoDiscovery /\ IsToolCreation(r)
                 THEN DetectToolDiscovery(first.detector, r)
                 ELSE first
         IN  IF second.discovery # NoDiscovery
             THEN LET discovery == UpdateKnowledgeBase(second.discovery)
                  IN  [detector |->
                         [second.detector EXCEPT
                            !.discoveries = Append(@, discovery)],
                       discovery |-> discovery]
             ELSE second

\* DiscoveryDetector.analyze_interaction_result: the detector afterwards
\* and the discovery returned.
AnalyzeInteractionResult(d, r) ==
    IF ~r.success \/ r.significance_score < significance_threshold
    THEN [detector |-> d, discovery |-> NoDiscovery]
    ELSE LET first ==
                 IF r.new_objects # <<>>
                 THEN DetectNewObjectDiscovery(d, r, r.new_objects)
                 ELSE IF r.modified_objects # <<>>
                 THEN DetectPropertyDiscovery(d, r, r.modified_objects)
                 ELSE [detector |-> d, discovery |-> NoDiscovery]
             second ==
                 IF first.discovery = NoDiscovery /\ IsToolCreation(r)
                 THEN DetectToolDiscovery(first.detector, r)
                 ELSE first
         IN  IF second.discovery # NoDiscovery
             THEN LET discovery == UpdateKnowledgeBase(second.discovery)
                  IN  [detector |->
                         [second.detector EXCEPT
                            !.discoveries = Append(@, discovery)],
                       discovery |-> discovery]
             ELSE second

\* ---------------------------------------------------- a run of the detector
\* A result as interact hands it over: the objects themselves in
\* modified_objects and destroyed_objects.
Resolved(c) ==
    LET Objects(who) == [k \in DOMAIN who |->
                           IF who[k] = "actor" THEN c.actor ELSE c.target]
    IN  [c.result EXCEPT !.modified_objects = Objects(@),
                         !.destroyed_objects = Objects(@)]

\* The results interact can return for two fresh objects of a pair.
ResultsOf(pair) ==
    UNION {{Resolved(o.c) :
              o \in {i \in Interact(NewEngine, pair[a], pair[3 - a], action) :
                        ~i.raised}} :
           a \in 1 .. 2, action \in RunActions}

\* The signatures of the new objects of a result, one for each object.
RECURSIVE CountedAll(_, _)
CountedAll(table, new_objects) ==
    IF new_objects = <<>> THEN table
    ELSE CountedAll(Counted(table, GetObjectSignature(Head(new_objects))),
                    Tail(new_objects))

InitDetector ==
    /\ NoWorld
    /\ call = NoCall
    /\ universe \in EnginePairs
    /\ brain_pool = <<>>
    /\ population = <<>>
    /\ generation = 0
    /\ engine = NewEngine
    /\ last_result = CombinationResult
    /\ calls = 0
    /\ detector = NewDetector
    /\ occurrences = <<>>
    /\ networks = <<>>

\* One analyze_interaction_result call on a result of the run's objects.
\* occurrences counts, for each signature, the objects with it that results
\* passing the threshold have created.
Analyze(r) ==
    /\ calls < MaxAnalyses
    /\ LET a == AnalyzeInteractionResult(detector, r)
       IN  /\ detector' = a.detector
           /\ call' = Call("analyze_interaction_result",
                           <<a.discovery.id>>,
                           IF a.discovery = NoDiscovery THEN "None"
                           ELSE "Discovery")
    /\ last_result' = r
    /\ occurrences' =
          IF r.success /\ r.significance_score >= significance_threshold
          THEN CountedAll(occurrences, r.new_objects)
          ELSE occurrences
    /\ calls' = calls + 1
    /\ UNCHANGED <<worldVars, universe, brain_pool, population, generation,
                   engine, networks>>

NextDetector == \E r \in ResultsOf(universe) : Analyze(r)

SpecDetector == InitDetector /\ [][NextDetector]_vars

\* ----------------------------------------------------------- neural networks
\* The weights of a network in a run (a NeuralNetwork has 249) and the
\* operations of a run.
NetWeights == 2
MaxBrainCalls == 3

\* Weights are floats in the source; the model counts them in fifths: the
\* clamp at 2.0 is 10 and the default mutation_strength 0.2 is 1.
WeightLimit == 10
MutationStrength == 1

\* The outcomes of one iteration of mutate's loop on a weight: left alone,
\* or moved by at most mutation_strength.
MutatedWeightUnclamped(weight, mutation_strength) ==
    {weight + delta : delta \in (0 - mutation_strength) .. mutation_strength}

\* One iteration of mutate's loop, lines 61-64, with the clamp.
MutatedWeight(weight, mutation_strength) ==
    {Max(0 - WeightLimit, Min(WeightLimit, weight + delta)) :
        delta \in (0 - mutation_strength) .. mutation_strength}

\* NeuralNetwork.mutate: the weights it can leave.
mutate(weights, mutation_strength) ==
    {w \in [DOMAIN weights -> (0 - WeightLimit - mutation_strength)
                                  .. (WeightLimit + mutation_strength)] :
        \A k \in DOMAIN weights :
            w[k] \in MutatedWeight(weights[k], mutation_strength)}

\* NeuralNetwork.copy: a network with the same weights.
copy(weights) == weights

\* CellBrain._crossover: each weight from either parent.
crossover(weights, partner_weights) ==
    {w \in [DOMAIN weights -> {weights[k] : k \in DOMAIN weights}
                              \cup {partner_weights[k] :
                                       k \in DOMAIN partner_weights}] :
        \A k \in DOMAIN weights : w[k] \in {weights[k], partner_weights[k]}}

\* partner_brain = None.
NoPartner == <<>>

\* CellBrain.reproduce: the child networks, alone (partner None) or with a
\* partner.
reproduce(weights, partner_weights) ==
    IF partner_weights = NoPartner
    THEN mutate(copy(weights), MutationStrength)
    ELSE UNION {mutate(child, MutationStrength) :
                   child \in crossover(weights, partner_weights)}

\* A network with every weight at w.
AllAt(w) == [k \in 1 .. NetWeights |-> w]

\* A run holds two networks; their weights start inside the clamp's range,
\* at its ends and near them.
InitBrain ==
    /\ NoWorld
    /\ call = NoCall
    /\ universe = <<>>
    /\ brain_pool = <<>>
    /\ population = <<>>
    /\ generation = 0
    /\ engine = <<>>
    /\ last_result = <<>>
    /\ calls = 0
    /\ detector = <<>>
    /\ occurrences = <<>>
    /\ networks \in {<<AllAt(WeightLimit), AllAt(0 - WeightLimit)>>,
                     <<AllAt(0), AllAt(WeightLimit - 1)>>}

\* The other network of the run.
Other(n) == 3 - n

BrainFrame ==
    UNCHANGED <<worldVars, universe, brain_pool, population, generation,
                engine, last_result, detector, occurrences>>

\* networks[n].mutate().
Mutate(n) ==
    /\ calls < MaxBrainCalls
    /\ \E w \in mutate(networks[n], MutationStrength) :
          networks' = [networks EXCEPT ![n] = w]
    /\ call' = Call("mutate", <<n>>, "ok")
    /\ calls' = calls + 1
    /\ BrainFrame

\* networks[n].copy(); the new network takes the other one's place.
Copy(n) ==
    /\ calls < MaxBrainCalls
    /\ networks' = [networks EXCEPT ![Other(n)] = copy(networks[n])]
    /\ call' = Call("copy", <<n>>, "ok")
    /\ calls' = calls + 1
    /\ BrainFrame

\* _crossover of n's brain with the other network, which the child
\* replaces.
Crossover(n) ==
    /\ calls < MaxBrainCalls
    /\ \E w \in crossover(networks[n], networks[Other(n)]) :
          networks' = [networks EXCEPT ![Other(n)] = w]
    /\ call' = Call("_crossover", <<n>>, "ok")
    /\ calls' = calls + 1
    /\ BrainFrame

\* reproduce of n's brain, alone or with the other network's brain; the
\* child replaces the other network.
ReproduceBrain(n, sexual) ==
    /\ calls < MaxBrainCalls
    /\ \E w \in reproduce(networks[n],
                          IF sexual THEN networks[Other(n)] ELSE NoPartner) :
          networks' = [networks EXCEPT ![Other(n)] = w]
    /\ call' = Call("reproduce", <<n>>, IF sexual THEN "partner" ELSE "alone")
    /\ calls' = calls + 1
    /\ BrainFrame

NextBrain ==
    \E n \in 1 .. 2 :
        \/ Mutate(n)
        \/ Copy(n)
        \/ Crossover(n)
        \/ \E sexual \in BOOLEAN : ReproduceBrain(n, sexual)

SpecBrain == InitBrain /\ [][NextBrain]_vars

\* ------------------------------ foraging and experimentation on their own
\* Inventories an organism can hold when it experiments: native materials,
\* by object identity; the same object can be held twice.
ExperimentInventories == {<<>>, <<1>>, <<1, 1>>, <<1, 2>>, <<1, 2, 1>>}

\* A row of herbivores on a map of scattered native materials; one of
\* them has gathered one of the inventories, and its cooldown has either
\* run out or just been set.
InitExperiment ==
    /\ \E s \in 1 .. Width, inv \in ExperimentInventories,
          cooldown \in {0, ExperimentationCooldown} :
          cells = [k \in 1 .. Width |->
                     [Herbivoro(k - 1, 0, HerbivoroInitialEnergy,
                                HerbivoroEnergyPerPlant,
                                HerbivoroReproductionThreshold)
                      EXCEPT !.inventory = IF k = s THEN inv ELSE <<>>,
                             !.experimentation_cooldown =
                                 IF k = s THEN cooldown ELSE 0]]
    /\ grid = [p \in Pos |-> IF p[2] = 0 THEN p[1] + 1 ELSE None]
    /\ tick = 0
    /\ dead_brains = [herbivores |-> <<>>, carnivores |-> <<>>]
    /\ pc = "idle"
    /\ cells_to_update = <<>>
    /\ new_cells = <<>>
    /\ cells_to_remove = <<>>
    /\ call = NoCall
    /\ updates = <<>>
    /\ placed = {}
    /\ evolved_at = <<>>
    /\ scattered_materials \in [Pos -> {None} \cup (1 .. NativeMaterials)]
    /\ objects = 0
    /\ discoveries = 0
    /\ host = [seed |-> 0, scattered |-> 0, objects |-> MaxObjects]
    /\ consumed = {}
    /\ LabIdle

\* cells[i].attempt_discovery(world), with the outcomes of its draws.
Experiment(i, curious, a, b) ==
    /\ \E w \in AttemptDiscoveryWith(
                  [grid |-> grid, cells |-> cells, new |-> None,
                   eaten |-> None,
                   scattered_materials |-> scattered_materials,
                   objects |-> objects, discoveries |-> discoveries],
                  i, curious, a, b) :
          /\ cells' = w.cells
          /\ objects' = w.objects
          /\ discoveries' = w.discoveries
    /\ call' = Call("attempt_discovery", <<i, curious, a, b>>, "ok")
    /\ UNCHANGED <<grid, tick, dead_brains, pc, cells_to_update, new_cells,
                   cells_to_remove, updates, placed, evolved_at,
                   scattered_materials, host, consumed>>
    /\ UNCHANGED labVars

\* cells[i].find_basic_materials(world).
Forage(i) ==
    /\ \E w \in FindBasicMaterials(
                  [grid |-> grid, cells |-> cells, new |-> None,
                   eaten |-> None,
                   scattered_materials |-> scattered_materials,
                   objects |-> objects, discoveries |-> discoveries], i) :
          /\ cells' = w.cells
          /\ scattered_materials' = w.scattered_materials
          /\ objects' = w.objects
    /\ call' = Call("find_basic_materials", <<i>>, "ok")
    /\ UNCHANGED <<grid, tick, dead_brains, pc, cells_to_update, new_cells,
                   cells_to_remove, updates, placed, evolved_at, discoveries,
                   host, consumed>>
    /\ UNCHANGED labVars

NextExperiment ==
    \/ \E i \in 1 .. Len(cells), curious \in BOOLEAN :
         \E a, b \in Choices(cells[i].inventory) :
            Experiment(i, curious, a, b)
    \/ \E i \in 1 .. Len(cells) : Forage(i)

SpecExperiment == InitExperiment /\ [][NextExperiment]_vars

\* ================================================================== claims
IsAnimal(i) == cells[i].kind \in {"H", "C"}

\* The step of the pass that takes organism i from the cells still to visit.
Visits(i) ==
    /\ pc = "pass" /\ pc' = "pass"
    /\ Count(i, cells_to_update') < Count(i, cells_to_update)

\* C1: in every reachable state each grid cell holds at most one organism,
\* an occupied cell (x, y) holds an organism whose stored coordinates are
\* (x, y), and no organism is referenced by more than one cell; moving,
\* eating, inserting offspring and spawning evolved creatures preserve it.
SingleOccupancy ==
    /\ \A p \in Pos :
         grid[p] # None =>
            /\ grid[p] \in 1 .. Len(cells)
            /\ <<cells[grid[p]].x, cells[grid[p]].y>> = p
    /\ \A p, q \in Pos : grid[p] # None /\ grid[p] = grid[q] => p = q

\* A tick has ended in which prey was consumed by an organism now on the
\* grid away from where it was seeded, an offspring was inserted and an
\* evolved creature was spawned.
SingleOccupancyWitness ==
    /\ pc = "idle"
    /\ \E i \in OnGrid(grid) : cells[i].origin = "offspring"
    /\ \E i \in OnGrid(grid) : cells[i].origin = "evolved"
    /\ \E i \in OnGrid(grid) : IsAnimal(i) /\ cells[i].age > 0
                               /\ cells[i].energy_gained > 0
    /\ consumed # {}

\* C2: once an organism has been removed from the grid it never again
\* occupies a grid cell: no step puts back an organism that has been on the
\* grid and is no longer on it.
NoResurrection ==
    [][\A i \in placed : i \notin OnGrid(grid) => i \notin OnGrid(grid')]_vars

\* C3: an organism removed from the grid earlier in the pass (consumed as
\* prey, or recorded as dead) is skipped when the pass reaches it: the
\* step that visits it runs no update on it and leaves it as it was.
RemovedIsSkipped ==
    [][\A i \in 1 .. Len(cells) :
          Visits(i) /\ (i \in consumed \/ InSeq(i, cells_to_remove))
              /\ i \notin OnGrid(grid)
          => /\ cells'[i] = cells[i]
             /\ updates'[i] = updates[i]
             /\ grid' = grid]_vars

IsPrefix(s, t) == Len(s) <= Len(t) /\ SubSeq(t, 1, Len(s)) = s

Where(i) == <<cells[i].x, cells[i].y>>

\* The step that ends a tick: removal, insertion, evolution.
EndsTick == pc = "pass" /\ pc' = "idle"

\* C4: offspring produced during the pass are buffered and not on the grid
\* while the pass runs; after the removals at the end of the tick each is
\* placed only into a cell that is empty at that moment, occupied cells are
\* never overwritten, and of several offspring buffered for one cell the
\* first in insertion order is placed and the others are dropped.
OffspringInsertedAtEnd ==
    /\ [](pc = "pass" =>
            \A k \in 1 .. Len(new_cells) : new_cells[k] \notin OnGrid(grid))
    /\ [][EndsTick =>
            LET cleared == RemoveCells(grid, cells, cells_to_remove)
            IN  /\ \A p \in Pos : cleared[p] # None => grid'[p] = cleared[p]
                /\ \A k \in 1 .. Len(new_cells) :
                     LET n == new_cells[k]
                         first == \A j \in 1 .. k - 1 :
                                     Where(new_cells[j]) # Where(n)
                     IN  IF cleared[Where(n)] = None /\ first
                         THEN grid'[Where(n)] = n
                         ELSE n \notin OnGrid(grid')]_vars

\* A tick has ended with two offspring buffered for the same cell: the
\* first is on the grid, the second is not.
OffspringInsertedAtEndWitness ==
    /\ pc = "idle"
    /\ \E j, k \in 1 .. Len(new_cells) :
         /\ j < k
         /\ Where(new_cells[j]) = Where(new_cells[k])
         /\ grid[Where(new_cells[j])] = new_cells[j]
         /\ new_cells[k] \notin OnGrid(grid)

\* C5: within one tick no organism's update runs more than once; an
\* organism of the snapshot that is still on the grid when the pass
\* reaches it is updated then, exactly once; an organism that is not in
\* the snapshot (offspring and evolved creatures created in this tick) is
\* not updated before the next tick.  An update is what ages an organism.
UpdatedAtMostOnce ==
    /\ [](\A i \in DOMAIN updates : updates[i] <= 1)
    /\ [][pc = "pass" =>
            /\ \A i \in DOMAIN updates :
                 /\ cells'[i].age - cells[i].age = updates'[i] - updates[i]
                 /\ Visits(i) /\ i \in OnGrid(grid) =>
                       updates'[i] = updates[i] + 1
            /\ \A i \in (1 .. Len(cells')) \ DOMAIN updates :
                 cells'[i].age = IF i <= Len(cells) THEN cells[i].age ELSE 0
         ]_vars

\* A tick has ended in which the organisms of the snapshot, at least two,
\* were each updated once, and an offspring created in the tick is on the
\* grid with age 0.
UpdatedAtMostOnceWitness ==
    /\ pc = "idle" /\ tick > 0
    /\ Cardinality(DOMAIN updates) >= 2
    /\ \A i \in DOMAIN updates : updates[i] = 1
    /\ \E i \in OnGrid(grid) \ DOMAIN updates :
         cells[i].origin = "offspring" /\ cells[i].age = 0

\* C6: _evolve_generation runs at the end of a tick exactly when the tick
\* counter after its increment is a positive multiple of generation_length;
\* right after such a tick both dead-brain pools are empty, and through
\* every other step the pools only grow by appending.
EvolutionEveryGeneration ==
    /\ [](pc = "idle" =>
            evolved_at = [k \in 1 .. (tick \div GenerationLength) |->
                            k * GenerationLength])
    /\ [](pc = "idle" /\ tick > 0 /\ tick % GenerationLength = 0 =>
            dead_brains = [herbivores |-> <<>>, carnivores |-> <<>>])
    /\ [][~(EndsTick /\ tick % GenerationLength = 0) =>
            /\ IsPrefix(dead_brains.herbivores, dead_brains'.herbivores)
            /\ IsPrefix(dead_brains.carnivores, dead_brains'.carnivores)]_vars

\* The first generation has just ended: evolution ran once, on a pool that
\* held a brain, and spawned a creature.
EvolutionEveryGenerationWitness ==
    /\ pc = "idle" /\ tick = GenerationLength
    /\ evolved_at = <<GenerationLength>>
    /\ \E i \in OnGrid(grid) : cells[i].origin = "evolved"
    /\ dead_brains = [herbivores |-> <<>>, carnivores |-> <<>>]

Pool(kind) ==
    IF kind = "H" THEN dead_brains.herbivores ELSE dead_brains.carnivores

\* C7: when the pass updates an animal whose energy after the upkeep is
\* <= 0, the update ages it, charges the upkeep, records age_at_death equal
\* to its age and does nothing else: no foraging, no discovery attempt, no
\* move, no eating, no offspring.  The world appends its brain to its
\* species' pool, once, and it is off the grid when the tick ends.
StarvationEndsUpdate ==
    /\ [][\A i \in 1 .. Len(cells) :
            Visits(i) /\ IsAnimal(i)
                /\ cells[i].energy - Upkeep(cells[i].kind) <= 0
            => /\ cells' = [cells EXCEPT ![i] =
                    [@ EXCEPT !.age = @ + 1,
                              !.energy = @ - Upkeep(cells[i].kind),
                              !.last_energy =
                                  cells[i].energy - Upkeep(cells[i].kind),
                              !.age_at_death = cells[i].age + 1]]
               /\ grid' = grid
               /\ scattered_materials' = scattered_materials
               /\ objects' = objects /\ discoveries' = discoveries
               /\ new_cells' = new_cells /\ consumed' = consumed
               /\ dead_brains' =
                    IF cells[i].kind = "H"
                    THEN [dead_brains EXCEPT !.herbivores = Append(@, i)]
                    ELSE [dead_brains EXCEPT !.carnivores = Append(@, i)]
               /\ Count(i, dead_brains'.herbivores)
                    + Count(i, dead_brains'.carnivores) = 1
               /\ InSeq(i, cells_to_remove')]_vars
    /\ [][EndsTick =>
            \A k \in 1 .. Len(cells_to_remove) :
               cells_to_remove[k] \notin OnGrid(grid')]_vars

\* A tick has ended in which an animal starved on top of a scattered
\* material it had room to pick up: the material is still there, the
\* animal is off the grid and its brain is in the pool once.
StarvationEndsUpdateWitness ==
    /\ pc = "idle" /\ tick = 1
    /\ \E k \in 1 .. Len(cells_to_remove) :
         LET i == cells_to_remove[k]
         IN  /\ IsAnimal(i) /\ cells[i].energy <= 0
             /\ cells[i].age_at_death = cells[i].age
             /\ scattered_materials[Where(i)] # None
             /\ cells[i].inventory = <<>>
             /\ i \notin OnGrid(grid)
             /\ Count(i, Pool(cells[i].kind)) = 1

\* C8: an animal removed from the grid, by starvation or by being consumed
\* as prey, has its brain in its species' dead-brain pool exactly once
\* until evolution consumes the pool: at the end of every tick before the
\* first evolution, each such animal is in its pool once.
RemovedBrainPooledOnce ==
    pc = "idle" /\ evolved_at = <<>> =>
        \A i \in 1 .. Len(cells) :
            IsAnimal(i) /\ i \notin OnGrid(grid)
                /\ (i \in consumed \/ ShouldDie(cells[i]))
            => Count(i, Pool(cells[i].kind)) = 1

KindCount(cs, ids, kind) == Cardinality({i \in ids : cs[i].kind = kind})

\* C9: populate_random with fewer empty cells than requested organisms
\* raises and changes nothing; otherwise it adds exactly the requested
\* number of each species, each new organism in its own cell that was
\* empty before the call, and leaves the occupied cells as they were.
PopulateAllOrNothing ==
    [][pc = "idle" /\ call'.op = "populate" =>
         LET plants == call'.args[1]
             herbivores == call'.args[2]
             carnivores == call'.args[3]
             total == plants + herbivores + carnivores
             empty == EmptyPositions(grid)
             added == (Len(cells) + 1) .. Len(cells')
         IN  IF Cardinality(empty) < total
             THEN call'.result = "ValueError" /\ grid' = grid /\ cells' = cells
             ELSE /\ call'.result = "ok"
                  /\ Len(cells') = Len(cells) + total
                  /\ SubSeq(cells', 1, Len(cells)) = cells
                  /\ KindCount(cells', added, "P") = plants
                  /\ KindCount(cells', added, "H") = herbivores
                  /\ KindCount(cells', added, "C") = carnivores
                  /\ \A i \in added :
                       /\ <<cells'[i].x, cells'[i].y>> \in empty
                       /\ grid'[<<cells'[i].x, cells'[i].y>>] = i
                  /\ \A i, j \in added :
                       i # j => <<cells'[i].x, cells'[i].y>>
                                  # <<cells'[j].x, cells'[j].y>>
                  /\ \A p \in Pos :
                       IF p \in empty
                       THEN grid'[p] \in added \cup {None}
                       ELSE grid'[p] = grid[p]]_vars

\* A populate call has raised on a world that holds organisms and has
\* live empty cells: fewer than were asked for.
PopulateAllOrNothingWitness ==
    /\ call.op = "populate" /\ call.result = "ValueError"
    /\ OnGrid(grid) # {}
    /\ EmptyPositions(grid) # {}

\* C10: with the default species parameters no animal on the grid has
\* energy <= 0 when a tick has ended.
NoExhaustedAnimalOnGrid ==
    pc = "idle" =>
        \A i \in OnGrid(grid) : IsAnimal(i) => cells[i].energy > 0

\* A tick has ended in which an animal starved and was removed while an
\* offspring animal, with its share of the parent's energy, is on the grid.
NoExhaustedAnimalOnGridWitness ==
    /\ pc = "idle" /\ tick > 0
    /\ \E k \in 1 .. Len(cells_to_remove) :
         /\ IsAnimal(cells_to_remove[k])
         /\ cells[cells_to_remove[k]].energy <= 0
         /\ cells_to_remove[k] \notin OnGrid(grid)
    /\ \E i \in OnGrid(grid) : IsAnimal(i) /\ cells[i].origin = "offspring"

InactiveIffNoDurability ==
    \A o \in DOMAIN universe :
        /\ universe[o].durability \in 0 .. MaxDurability
        /\ ~universe[o].is_active <=> universe[o].durability = 0

\* C18: modify_property_intensity on a held property returns True and leaves
\* the intensity within [0, 1]: a non-permanent property that reaches 0 is
\* removed, a permanent one is kept at 0; on a property the object does not
\* hold it returns False and changes nothing.
ModifyIntensityClamps ==
    [][call'.op = "modify_property_intensity" =>
         LET name == call'.args[2]
             delta == call'.args[3]
             before == universe[call'.args[1]]
             after == universe'[call'.args[1]]
         IN  IF name \in DOMAIN before.properties
             THEN LET sum == before.properties[name].intensity + delta
                      clamped == IF sum < 0 THEN 0
                                 ELSE IF sum > FullIntensity
                                 THEN FullIntensity ELSE sum
                  IN  /\ call'.result = "True"
                      /\ IF clamped = 0 /\ name \in StateProperties
                         THEN name \notin DOMAIN after.properties
                         ELSE /\ name \in DOMAIN after.properties
                              /\ after.properties[name].intensity = clamped
                      /\ \A n \in DOMAIN before.properties \ {name} :
                            /\ n \in DOMAIN after.properties
                            /\ after.properties[n] = before.properties[n]
                      /\ DOMAIN after.properties \subseteq
                            DOMAIN before.properties
             ELSE call'.result = "False" /\ after = before]_vars

\* The stick's permanent es_fragil was driven to 0 and kept, and its
\* non-permanent esta_roto was driven to 0 and removed by the last call.
ModifyIntensityClampsWitness ==
    /\ call.op = "modify_property_intensity" /\ call.result = "True"
    /\ call.args[2] = "esta_roto"
    /\ \E o \in DOMAIN universe :
          /\ has_property(universe[o], "es_fragil")
          /\ universe[o].properties["es_fragil"].intensity = 0
          /\ ~has_property(universe[o], "esta_roto")
          /\ universe[o].durability < BrokenBelow
          /\ universe[o].is_active

\* ------------------------------------------- claims on the evolution engine
\* C19: evolve_population returns exactly target_population brains in every
\* case: for an empty pool, for a pool whose elite is smaller than the
\* target (filled by reproduction) and for a pool whose elite is larger
\* than the target (truncated).
EvolveReturnsTarget ==
    call.op = "evolve_population" => Len(population) = call.args[2]

\* A pool whose elite outnumbers a positive target was evolved.
EvolveReturnsTargetWitness ==
    /\ call.op = "evolve_population"
    /\ call.args[2] > 0
    /\ EliteCount(Len(brain_pool)) > call.args[2]
    /\ Len(population) = call.args[2]

EnergyPerPrey(kind) ==
    IF kind = "H" THEN HerbivoroEnergyPerPlant
    ELSE CarnivoroEnergyPerHerbivore

\* C13: an attempt of an organism holding two distinct inventory objects
\* whose combination yields a discovery it does not know adds exactly one
\* id to its known set, appends the new object to its inventory and adds 10
\* to its brain's energy gained; in every other outcome of its update the
\* known set is unchanged and the energy gained, once the head of the
\* update has recorded the energy risen since the last tick, grows only by
\* what the animal eats in the move that follows the attempt.
DiscoveryRewardedOnce ==
    [][\A i \in 1 .. Len(cells) :
          Visits(i) /\ IsAnimal(i) /\ ~InSeq(i, cells_to_remove) =>
             LET eaten == {0, EnergyPerPrey(cells[i].kind)}
                 before == Upkept(cells[i])
                 after == cells'[i]
             IN  IF after.known_discoveries # before.known_discoveries
                 THEN /\ before.known_discoveries
                            \subseteq after.known_discoveries
                      /\ Cardinality(after.known_discoveries)
                            = Cardinality(before.known_discoveries) + 1
                      /\ discoveries' = discoveries + 1
                      /\ discoveries' \in after.known_discoveries
                      /\ objects' > objects
                      /\ Len(after.inventory) >= 3
                      /\ after.inventory[Len(after.inventory)]
                            = NativeMaterials + objects'
                      /\ ~InSeq(NativeMaterials + objects',
                                before.inventory)
                      /\ \E a, b \in 1 .. Len(after.inventory) - 1 :
                            after.inventory[a] # after.inventory[b]
                      /\ after.energy_gained - before.energy_gained
                            - DiscoveryEnergyBonus \in eaten
                 ELSE /\ after.energy_gained - before.energy_gained
                            \in eaten
                      /\ discoveries' = discoveries]_vars

\* An organism on the grid knows a discovery it made itself: the new
\* object is the last of at least three objects it holds and its brain's
\* energy gained is exactly the bonus.
DiscoveryRewardedOnceWitness ==
    \E i \in OnGrid(grid) :
        /\ IsAnimal(i)
        /\ cells[i].known_discoveries = {1}
        /\ Len(cells[i].inventory) >= 3
        /\ cells[i].inventory[Len(cells[i].inventory)] = NativeMaterials + 1
        /\ cells[i].energy_gained = DiscoveryEnergyBonus
        /\ discoveries = 1

\* ----------------------------------------- claims on the interaction engine
\* C11: every call of interact appends exactly one entry to
\* interaction_history, whatever the action kind and whether the
\* interaction succeeds, fails its probability draw, takes the generic path
\* or is rejected.
InteractLogsOnce ==
    [][call'.op = "interact" /\ calls' = calls + 1 =>
          Len(engine'.interaction_history)
              = Len(engine.interaction_history) + 1]_vars

\* C12: interact with an action kind that is no InteractionType does not
\* raise: it returns a result with success false and no new, modified or
\* destroyed objects, and the actor and the target are unchanged.
UnknownKindFails ==
    [][/\ call'.op = "interact" /\ calls' = calls + 1
       /\ Lower(call'.args[3]) \notin InteractionType
       => /\ call'.result = "ok"
          /\ ~last_result'.success
          /\ last_result'.new_objects = <<>>
          /\ last_result'.modified_objects = <<>>
          /\ last_result'.destroyed_objects = <<>>
          /\ universe' = universe]_vars


\* The signature a discovery record about a created object is about.
SignatureOf(discovery) == <<discovery.name[2], discovery.properties_involved>>

\* The discovery records about created objects.
ObjectDiscoveries ==
    {k \in DOMAIN detector.discoveries :
        detector.discoveries[k].id[1] \in {"DISC", "TOOL"}}

\* C14: across any sequence of analyze calls, the detector holds at most one
\* discovery record for a new-object signature: a later result creating an
\* object whose signature was seen before adds no second, distinct record
\* for it.
OneDiscoveryPerSignature ==
    call.op = "analyze_interaction_result" =>
        \A j, k \in ObjectDiscoveries :
            SignatureOf(detector.discoveries[j])
                = SignatureOf(detector.discoveries[k]) => j = k

\* C15: the discovery first emitted for a signature is reproducible exactly
\* from the third occurrence of that signature in results passing the
\* threshold: false before it, true afterwards.
ReproducibleFromThirdOccurrence ==
    call.op = "analyze_interaction_result" =>
        \A k \in DOMAIN detector.discoveries :
            LET discovery == detector.discoveries[k]
                signature == SignatureOf(discovery)
                seen == IF signature \in DOMAIN occurrences
                        THEN occurrences[signature] ELSE 0
            IN  discovery.id[1] = "DISC" =>
                   (discovery.reproducible <=> seen >= ReproducibleAfter)

\* ------------------------------------------------ claims on neural networks
\* C21: starting from networks whose weights all lie in [-2, 2], every
\* sequence of mutate, copy, crossover and reproduce operations leaves only
\* networks whose every weight lies in [-2, 2].
WeightsStayClamped ==
    \A n \in DOMAIN networks : \A k \in DOMAIN networks[n] :
        0 - WeightLimit <= networks[n][k] /\ networks[n][k] <= WeightLimit

\* A reproduce with a partner has left a child that has a weight at the
\* upper end of the range and a weight at the lower end.
WeightsStayClampedWitness ==
    /\ call.op = "reproduce" /\ call.result = "partner"
    /\ \E k, j \in 1 .. NetWeights :
          /\ networks[Other(call.args[1])][k] = WeightLimit
          /\ networks[Other(call.args[1])][j] = 0 - WeightLimit

\* C22: a strike by an actor that holds es_duro and not es_cortante on a
\* target that holds es_fragil, both properties at the default intensity
\* and both objects at full durability, returns a success result and
\* leaves the target active with its durability lower by 25.
StrikeBreaksFragile ==
    [][/\ call'.op = "interact" /\ calls' = calls + 1
       /\ Lower(call'.args[3]) = "strike"
       /\ LET actor == universe[call'.args[1]]
              target == universe[call'.args[2]]
          IN  /\ has_property(actor, "es_duro")
              /\ ~has_property(actor, "es_cortante")
              /\ has_property(target, "es_fragil")
              /\ actor.properties["es_duro"].intensity = FullIntensity
              /\ target.properties["es_fragil"].intensity = FullIntensity
              /\ actor.durability = MaxDurability
              /\ target.durability = MaxDurability
       => /\ call'.result = "ok"
          /\ last_result'.success
          /\ universe'[call'.args[2]].durability = MaxDurability - 25
          /\ universe'[call'.args[2]].durability
                < universe[call'.args[2]].durability
          /\ universe'[call'.args[2]].is_active]_vars

\* The first interaction of a run was a strike of the hard Roca on the
\* fragile Vidrio, both fresh: it succeeded and the Vidrio, still active,
\* is at durability 75.
StrikeBreaksFragileWitness ==
    /\ call.op = "interact" /\ calls = 1
    /\ Lower(call.args[3]) = "strike"
    /\ universe[call.args[1]].name = "Roca"
    /\ universe[call.args[2]].name = "Vidrio"
    /\ last_result.success
    /\ universe[call.args[2]].durability = MaxDurability - 25
    /\ universe[call.args[2]].is_active

\* ----------------------------------------------------- claims on the pass
\* C23: the clearing at the end of a tick removes only organisms that died
\* in the tick: an animal that is on the grid with energy > 0 when the pass
\* is over and was not consumed as prey is on the grid when the tick has
\* ended, even if it moved into the cell of an organism that died in the
\* same tick.
ClearingSparesTheLiving ==
    [][EndsTick =>
          \A i \in OnGrid(grid) :
              IsAnimal(i) /\ cells[i].energy > 0 /\ i \notin consumed
                  /\ ~InSeq(i, cells_to_remove)
              => i \in OnGrid(grid')]_vars

\* The energy an animal of these parameters can end its update with when
\* its move leaves it with energy e: reproduction at the threshold halves
\* it when a neighbouring cell is empty.
AfterReproduction(c, e) ==
    IF e >= c.reproduction THEN {e, e \div 2} ELSE {e}

\* C24: the move step of a living animal changes the world only as the
\* brain's decision prescribes.  If the target cell holds prey of its diet
\* the prey leaves the grid, the animal gains its configured energy and
\* occupies the prey's cell, its old cell being empty; if the target cell
\* is empty the animal moves there; if the target is out of bounds or holds
\* any other organism, the grid, the position and the energy stay as they
\* were.
MoveStepFrame ==
    [][\A i \in 1 .. Len(cells) :
          Visits(i) /\ IsAnimal(i) /\ ~InSeq(i, cells_to_remove)
              /\ Upkept(cells[i]).energy > 0
          => LET before == Upkept(cells[i])
                 after == cells'[i]
                 old == <<before.x, before.y>>
             IN  \E a \in DOMAIN BRAIN_ACTIONS :
                    LET np == <<before.x + BRAIN_ACTIONS[a][1],
                                before.y + BRAIN_ACTIONS[a][2]>>
                        inside == InBounds(np[1], np[2])
                        prey == inside /\ grid[np] # None
                                /\ cells[grid[np]].kind = Prey(before.kind)
                    IN  IF prey
                        THEN /\ grid' = [[grid EXCEPT ![old] = None]
                                             EXCEPT ![np] = i]
                             /\ grid[np] \notin OnGrid(grid')
                             /\ <<after.x, after.y>> = np
                             /\ after.energy \in AfterReproduction(before,
                                   before.energy + before.energy_per_prey)
                        ELSE IF inside /\ grid[np] = None
                        THEN /\ grid' = [[grid EXCEPT ![old] = None]
                                             EXCEPT ![np] = i]
                             /\ <<after.x, after.y>> = np
                             /\ after.energy
                                   \in AfterReproduction(before, before.energy)
                        ELSE /\ grid' = grid
                             /\ <<after.x, after.y>> = old
                             /\ after.energy
                                   \in AfterReproduction(before,
                                                         before.energy)]_vars

\* In the pass an animal updated once stands in the cell of the prey it
\* has just consumed, the prey off the grid, with the prey's energy
\* recorded on its brain.
MoveStepFrameWitness ==
    /\ pc = "pass"
    /\ \E i \in OnGrid(grid), j \in consumed :
          /\ IsAnimal(i) /\ updates[i] = 1
          /\ cells[j].kind = Prey(cells[i].kind)
          /\ Where(j) = Where(i) /\ j \notin OnGrid(grid)
          /\ cells[i].energy_gained = cells[i].energy_per_prey

\* C25: an animal whose energy e after its move is at least its
\* reproduction threshold and that has an empty in-bounds Moore neighbour
\* is left with floor(e / 2) and yields one offspring of its species aimed
\* at one of those empty cells, with energy floor(floor(e / 2) / 2), so
\* that parent and offspring together hold at most e, and its brain counts
\* one offspring more.  With no empty neighbour nothing happens: no
\* offspring, the energy and the brain's offspring count unchanged.  Below
\* the threshold there is no offspring either.
ReproductionSplitsEnergy ==
    [][\A i \in 1 .. Len(cells) :
          Visits(i) /\ IsAnimal(i) /\ ~InSeq(i, cells_to_remove)
              /\ Upkept(cells[i]).energy > 0
          => LET before == Upkept(cells[i])
                 after == cells'[i]
                 moved == {before.energy,
                           before.energy + before.energy_per_prey}
                 free == AdjacentEmpty(grid', after.x, after.y)
             IN  IF Len(new_cells') > Len(new_cells)
                 THEN LET child == cells'[new_cells'[Len(new_cells')]]
                      IN  /\ Len(new_cells') = Len(new_cells) + 1
                          /\ Len(cells') = Len(cells) + 1
                          /\ new_cells'[Len(new_cells')] = Len(cells')
                          /\ \E e \in moved :
                                /\ e >= before.reproduction
                                /\ after.energy = e \div 2
                                /\ child.energy = (e \div 2) \div 2
                                /\ after.energy + child.energy <= e
                          /\ child.kind = after.kind
                          /\ child.energy_per_prey = after.energy_per_prey
                          /\ child.reproduction = after.reproduction
                          /\ <<child.x, child.y>> \in free
                          /\ after.offspring_count
                                = before.offspring_count + 1
                 ELSE /\ cells' = [cells EXCEPT ![i] = after]
                      /\ after.energy \in moved
                      /\ after.offspring_count = before.offspring_count
                      /\ after.energy >= after.reproduction => free = {}]_vars

\* In one pass a herbivore at its threshold with no empty neighbour has
\* been updated and has its energy, no offspring and a brain that counts
\* none, while another animal has bred: its offspring is buffered with half
\* of what the parent kept.
ReproductionSplitsEnergyWitness ==
    /\ pc = "pass"
    /\ \E i \in OnGrid(grid) :
          /\ IsAnimal(i) /\ updates[i] = 1
          /\ cells[i].energy >= cells[i].reproduction
          /\ cells[i].offspring_count = 0
          /\ AdjacentEmpty(grid, cells[i].x, cells[i].y) = {}
    /\ \E j \in OnGrid(grid), k \in 1 .. Len(new_cells) :
          /\ IsAnimal(j) /\ cells[j].offspring_count = 1
          /\ cells[new_cells[k]].kind = cells[j].kind
          /\ cells[new_cells[k]].energy = cells[j].energy \div 2
          /\ cells[new_cells[k]].energy > 0

\* C26: every plant of a tick's snapshot is updated once in the tick and
\* the update raises its age by exactly 1; the update yields a clone, aimed
\* at an empty Moore neighbour and with the plant's reproduction age and
\* maximal age, exactly when the new age is a positive multiple of the
\* reproduction age and an empty neighbour exists; and when a tick has
\* ended no plant on the grid has reached its maximal age.
PlantLifeCycle ==
    /\ [][\A i \in 1 .. Len(cells) :
            Visits(i) /\ cells[i].kind = "P" /\ ~InSeq(i, cells_to_remove)
            => LET age == cells[i].age + 1
                   due == age >= cells[i].reproduction
                          /\ age % cells[i].reproduction = 0
                   free == AdjacentEmpty(grid, cells[i].x, cells[i].y)
               IN  /\ cells'[i] = [cells[i] EXCEPT !.age = age]
                   /\ updates'[i] = 1
                   /\ grid' = grid
                   /\ IF due /\ free # {}
                      THEN /\ Len(cells') = Len(cells) + 1
                           /\ new_cells' = Append(new_cells, Len(cells'))
                           /\ \E p \in free :
                                cells'[Len(cells')] =
                                   [Planta(p[1], p[2], cells[i].reproduction,
                                           cells[i].max_age)
                                    EXCEPT !.origin = "offspring"]
                      ELSE /\ new_cells' = new_cells
                           /\ Len(cells') = Len(cells)]_vars
    /\ [][EndsTick =>
            \A i \in DOMAIN updates : cells[i].kind = "P" => updates[i] = 1]_vars
    /\ [](pc = "idle" =>
            \A i \in OnGrid(grid) :
               cells[i].kind = "P" => cells[i].age < cells[i].max_age)

\* A tick has ended in which a plant reached its maximal age, cloned itself
\* and was removed: it is off the grid and its clone, of age 0 and with its
\* parameters, is on it.
PlantLifeCycleWitness ==
    /\ pc = "idle"
    /\ \E k \in 1 .. Len(cells_to_remove), n \in OnGrid(grid) :
          LET i == cells_to_remove[k]
          IN  /\ cells[i].kind = "P" /\ cells[i].age = cells[i].max_age
              /\ i \notin OnGrid(grid)
              /\ InSeq(n, new_cells)
              /\ cells[n].kind = "P" /\ cells[n].age = 0
              /\ cells[n].max_age = cells[i].max_age
              /\ cells[n].reproduction = cells[i].reproduction

\* C27: whenever an organism's discovery attempt fires (its cooldown has
\* run out, the curiosity draw passes and it holds at least 2 items), the
\* two items chosen are distinct and the organism's cooldown is 5 after
\* the attempt.
FiredAttemptSetsCooldown ==
    [][\A i \in 1 .. Len(cells) :
          /\ call'.op = "attempt_discovery"
          /\ call'.args[1] = i
          /\ call'.args[2]
          /\ cells[i].experimentation_cooldown <= 0
          /\ Len(cells[i].inventory) >= 2
          => LET a == call'.args[3]
                 b == call'.args[4]
             IN  /\ a # b
                 /\ cells[i].inventory[a] # cells[i].inventory[b]
                 /\ cells'[i].experimentation_cooldown = 5]_vars

\* C28: the experimentation cooldown of a herbivore or carnivore, once an
\* attempt has set it to 5, decreases by 1 on each later tick of the
\* animal (so that it reaches 0 after 5 ticks and the animal can attempt
\* again): every update of a living animal whose cooldown is positive
\* lowers the cooldown by 1.
CooldownCountsDown ==
    [][\A i \in 1 .. Len(cells) :
          Visits(i) /\ IsAnimal(i) /\ ~InSeq(i, cells_to_remove)
             /\ Upkept(cells[i]).energy > 0
             /\ cells[i].experimentation_cooldown > 0
          => cells'[i].experimentation_cooldown
                = cells[i].experimentation_cooldown - 1]_vars

\* The Moore neighbours of organism i on the grid.
MooreNeighbours(i) ==
    {grid[p] : p \in {q \in Pos :
                 <<q[1] - cells[i].x, q[2] - cells[i].y>> \in Moore}} \ {None}

\* C29: after an organism makes a new discovery, every organism in its 8
\* Moore-neighbour cells that did not know the discovery id has the id in
\* its known set and one sample object of the discovery more in its
\* inventory; neighbours that knew the id and organisms outside the
\* neighbourhood keep their known set and their inventory.
DiscoveryIsShared ==
    [][\A i \in 1 .. Len(cells) :
          Visits(i) /\ discoveries' = discoveries + 1
          => \A j \in (1 .. Len(cells)) \ {i} :
                IF j \in MooreNeighbours(i)
                   /\ discoveries' \notin cells[j].known_discoveries
                THEN /\ cells'[j].known_discoveries
                          = cells[j].known_discoveries \cup {discoveries'}
                     /\ Len(cells'[j].inventory)
                          = Len(cells[j].inventory) + 1
                     /\ IsPrefix(cells[j].inventory, cells'[j].inventory)
                ELSE /\ cells'[j].known_discoveries
                          = cells[j].known_discoveries
                     /\ cells'[j].inventory = cells[j].inventory]_vars

\* The places where object o is: map entries and inventory positions.
Holders(o) ==
    {<<"map", p, 0>> : p \in {q \in Pos : scattered_materials[q] = o}}
    \cup UNION {{<<"inventory", j, k>> :
                   k \in {n \in 1 .. Len(cells[j].inventory) :
                            cells[j].inventory[n] = o}}
                : j \in 1 .. Len(cells)}

AllObjects == 1 .. NativeMaterials + MaxObjects

\* No object is in two places.
ObjectsDistinct == \A o \in AllObjects : Cardinality(Holders(o)) <= 1

\* The number of objects in the map and in the inventories.
ObjectsHeld == Cardinality(UNION {Holders(o) : o \in AllObjects})

\* The map entries a step deletes.
Picked ==
    {p \in Pos : scattered_materials[p] # None
                 /\ scattered_materials'[p] # scattered_materials[p]}

\* C30: a call of find_basic_materials moves at most one scattered
\* material, and only when the organism holds fewer than 3 items: the map
\* entry is deleted and that same object appended to the forager's
\* inventory in the same step, nothing else in the map or in another
\* inventory changes; hence no step puts an object in two places (map and
\* inventory, or two inventories) when none was, a pickup leaves the
\* number of objects as it was, and foraging never raises an inventory
\* above 3 items.
ForagingMovesOneObject ==
    /\ [][\A i \in 1 .. Len(cells) :
            call'.op = "find_basic_materials" /\ call'.args = <<i>>
            => LET before == cells[i].inventory
                   after  == cells'[i].inventory
               IN  /\ Cardinality(Picked) <= 1
                   /\ \A p \in Pos :
                         scattered_materials'[p] # scattered_materials[p]
                         => p \in Picked /\ scattered_materials'[p] = None
                   /\ \A p \in Picked :
                         /\ Len(before) < 3
                         /\ after = Append(before, scattered_materials[p])
                         /\ ObjectsHeld' = ObjectsHeld
                   /\ after # before => Len(before) < 3 /\ Len(after) <= 3
                   /\ \A j \in (1 .. Len(cells)) \ {i} :
                         cells'[j].inventory = cells[j].inventory]_vars
    /\ [][ObjectsDistinct => ObjectsDistinct']_vars

\* An organism that held 2 items has picked a material up as its third,
\* and a material is still on the map within its reach.
ForagingMovesOneObjectWitness ==
    /\ call.op = "find_basic_materials"
    /\ \E i \in 1 .. Len(cells) :
          /\ call.args = <<i>>
          /\ cells[i].inventory \notin ExperimentInventories
          /\ \E inv \in ExperimentInventories, m \in 1 .. NativeMaterials :
                Len(inv) = 2 /\ cells[i].inventory = Append(inv, m)
          /\ \E p \in Near(cells[i].x, cells[i].y) :
                scattered_materials[p] # None

\* C31: the objects that a successful combine reports as destroyed (both
\* inputs of the advanced-material rule, the combination behind every
\* discovery an attempt makes) are no longer in the experimenting
\* organism's inventory after the attempt.
DestroyedInputsLeaveInventory ==
    [][\A i \in 1 .. Len(cells) :
          /\ call'.op = "attempt_discovery"
          /\ call'.args[1] = i
          /\ discoveries' = discoveries + 1
          => LET before == cells[i].inventory
                 after  == cells'[i].inventory
             IN  \A k \in 1 .. Len(after) :
                    /\ after[k] # before[call'.args[3]]
                    /\ after[k] # before[call'.args[4]]]_vars

RECURSIVE OffspringCounted(_)
OffspringCounted(S) ==
    IF S = {} THEN 0
    ELSE LET i == CHOOSE j \in S : TRUE
         IN  cells[i].offspring_count + OffspringCounted(S \ {i})

\* The animals that have been on the grid.
AnimalsPlaced == {i \in placed : IsAnimal(i)}

\* C33: while an animal lives, its brain's offspring counter is the number
\* of its offspring that were placed on the grid, an offspring dropped at
\* insertion not being counted: between ticks, as long as every animal
\* ever placed is still on the grid, the counters of the animals add up to
\* the number of animal offspring placed.
CounterCountsPlacedOffspring ==
    pc = "idle" /\ AnimalsPlaced \subseteq OnGrid(grid)
    => OffspringCounted(AnimalsPlaced)
          = Cardinality({n \in AnimalsPlaced : cells[n].origin = "offspring"})

\* The conditions under which rule k is a candidate for a call.
IsCandidate(k, actor, target, kind) ==
    /\ Rules[k].action_type = kind
    /\ \A n \in DOMAIN Rules[k].trigger_properties :
          Rules[k].trigger_properties[n] \in DOMAIN actor.properties
    /\ \E n \in DOMAIN Rules[k].target_properties :
          Rules[k].target_properties[n] \in DOMAIN target.properties

\* The score of candidate k, in units of 1 / FullIntensity.
CandidateScore(k, actor, target) ==
    10 * SumIntensities(actor, Rules[k].trigger_properties)
    + 5 * SumIntensities(target, Rules[k].target_properties)
    + FullIntensity * (Len(Rules[k].trigger_properties)
                       + Len(Rules[k].target_properties))

BaseSignificance(actor, target, r) ==
    10 * Len(r.new_objects)
    + 2 * SumStateCounts([actor |-> actor, target |-> target],
                         r.modified_objects)
    + 5 * Len(r.destroyed_objects)

\* C35: when a rule handler that awards a significance bonus succeeds (+15
\* for the creation of a tool, +20 for the synthesis of an advanced
\* material), the significance score of the result interact returns is the
\* base value plus that bonus.
BonusIsKept ==
    [][call'.op = "interact" /\ call'.result = "ok" /\ calls' = calls + 1
          /\ last_result'.success /\ last_result'.new_objects # <<>>
       => LET base == BaseSignificance(universe'[call'.args[1]],
                                       universe'[call'.args[2]], last_result')
          IN  /\ last_result'.description = "_rule_tool_creation"
                 => last_result'.significance_score = base + 15
              /\ last_result'.description = "_rule_advanced_conductor"
                 => last_result'.significance_score = base + 20]_vars

\* The outcomes stored in a table of the engine, over all its keys.
RECURSIVE StoredIn(_)
StoredIn(table) ==
    IF DOMAIN table = {} THEN 0
    ELSE LET key == CHOOSE k \in DOMAIN table : TRUE
         IN  table[key]
             + StoredIn([k \in DOMAIN table \ {key} |-> table[k]])

\* C36: every interact call with a recognised action kind stores its
\* outcome under (actor name, target name, action kind), as a success or
\* as a counted failure, calls resolved by the generic fallback included:
\* the number of log entries is the number of stored successes plus the
\* number of counted failures.
EveryOutcomeIsStored ==
    Len(engine.interaction_history)
       = StoredIn(engine.discovered_combinations)
         + StoredIn(engine.failed_attempts)

\* C37: analyze on a result that is unsuccessful or whose significance is
\* below the threshold returns no discovery and leaves the whole detector
\* state as it was: the discovery table, the creation counters of the
\* signatures, the property-emergence table and the next discovery id.
IgnoredResultChangesNothing ==
    [][/\ call'.op = "analyze_interaction_result" /\ calls' = calls + 1
       /\ \/ ~last_result'.success
          \/ last_result'.significance_score < significance_threshold
       => /\ call'.result = "None"
          /\ detector'.discoveries = detector.discoveries
          /\ detector'.object_patterns = detector.object_patterns
          /\ detector'.property_emergence = detector.property_emergence
          /\ detector'.next_discovery_id = detector.next_discovery_id]_vars

\* A detector that holds discoveries has just been handed a successful
\* result, with a modified object, whose significance is below the
\* threshold.
IgnoredResultChangesNothingWitness ==
    /\ call.op = "analyze_interaction_result" /\ call.result = "None"
    /\ last_result.success
    /\ last_result.significance_score < significance_threshold
    /\ last_result.modified_objects # <<>>
    /\ detector.discoveries # <<>>

\* The type the path that created discovery x assigns: by the id prefix,
\* and for a new object by its properties.
PathType(x) ==
    IF x.id[1] = "TOOL" THEN "tool_creation"
    ELSE IF x.id[1] = "PROP" THEN "property_combination"
    ELSE IF x.properties_involved
               \cap {"es_puntiagudo", "es_cortante", "es_duro"} # {}
    THEN "tool_creation"
    ELSE IF Cardinality(x.properties_involved) > 3 THEN "compound_creation"
    ELSE "new_object"

\* C38: after any sequence of analyze calls every discovery of the table
\* whose significance is greater than twice the threshold has the type
\* breakthrough, and every discovery whose significance is at most twice
\* the threshold keeps the type assigned by the path that created it.
BreakthroughAboveTwiceThreshold ==
    /\ [](\A k \in DOMAIN detector.discoveries :
            LET x == detector.discoveries[k]
            IN  IF x.significance > 2 * significance_threshold
                THEN x.discovery_type = "breakthrough"
                ELSE x.discovery_type = PathType(x))
    /\ [][\A k \in DOMAIN detector.discoveries :
            /\ detector'.discoveries[k].discovery_type
                  = detector.discoveries[k].discovery_type
            /\ detector'.discoveries[k].significance
                  = detector.discoveries[k].significance]_vars

\* The table holds a breakthrough and a discovery of a significance
\* between the threshold and twice the threshold that kept the type of its
\* path.
BreakthroughAboveTwiceThresholdWitness ==
    /\ \E k \in DOMAIN detector.discoveries :
          /\ detector.discoveries[k].significance
                > 2 * significance_threshold
          /\ detector.discoveries[k].discovery_type = "breakthrough"
    /\ \E k \in DOMAIN detector.discoveries :
          /\ detector.discoveries[k].significance
                > significance_threshold
          /\ detector.discoveries[k].significance
                <= 2 * significance_threshold
          /\ detector.discoveries[k].discovery_type = "property_combination"

\* The offspring the call has counted on the first k brains of the pool.
RECURSIVE BirthsCounted(_)
BirthsCounted(k) ==
    IF k = 0 THEN 0
    ELSE brain_pool'[k].offspring_count - brain_pool[k].offspring_count
         + BirthsCounted(k - 1)

\* C39: for a non-empty pool of n brains evolve selects ceil(n x 0.2)
\* elites, at least 1, and they are the brains of highest fitness: the
\* brains of the new population that no reproduce call made are the copies
\* of the elites, as many of the ceil(n x 0.2) fittest as the target size
\* admits.
EliteCountIsCeiling ==
    [][call'.op = "evolve_population" /\ brain_pool # <<>>
       => LET n == Len(brain_pool)
              ceiling == (2 * n + 9) \div 10
              kept == Len(population') - BirthsCounted(n)
              elite == {population'[k].network : k \in 1 .. kept}
          IN  /\ kept = Min(Max(1, ceiling), call'.args[2])
              /\ \A i \in elite, j \in (1 .. n) \ elite :
                    brain_pool'[i].fitness >= brain_pool'[j].fitness]_vars

\* C40: after the fitness calculation of evolve every brain of a non-empty
\* pool has a normalised fitness in [0, 1], the minimum raw fitness mapping
\* to 0 and the maximum to 1, and when all brains of the pool have the
\* same raw fitness (a pool of one brain included) every brain's fitness
\* is 0.5.
FitnessIsNormalised ==
    [][call'.op = "evolve_population" /\ brain_pool # <<>>
       => LET raw == [i \in DOMAIN brain_pool |-> RawFitness(brain_pool[i])]
              Lowest(i) == \A j \in DOMAIN raw : raw[i] <= raw[j]
              Highest(i) == \A j \in DOMAIN raw : raw[i] >= raw[j]
          IN  \A i \in DOMAIN brain_pool :
                 /\ brain_pool'[i].fitness >= 0
                 /\ brain_pool'[i].fitness <= FitnessUnit
                 /\ IF Lowest(i) /\ Highest(i)
                    THEN 2 * brain_pool'[i].fitness = FitnessUnit
                    ELSE /\ Lowest(i) => brain_pool'[i].fitness = 0
                         /\ Highest(i)
                            => brain_pool'[i].fitness = FitnessUnit]_vars

====
